---------------------------- MODULE Spec2Model ----------------------------
(***************************************************************************)
(* Shamir secret sharing over GF(2^8), GF(2^16) and GF(p): the field       *)
(* arithmetic of shamirshare2.py (v0.32) and its Lagrange fit / Horner     *)
(* eval, modelled operation by operation.                                  *)
(*                                                                         *)
(* A GF8 element is its integer value, a GF16 element the pair <<c0, c1>>  *)
(* of its two GF8 coefficients, a GF(p) element its integer value; a field *)
(* descriptor is the record [kind, prime].  Text (hex strings) is a        *)
(* sequence of one-character strings.                                      *)
(***************************************************************************)
EXTENDS Integers, Sequences, FiniteSets, TLC

(***************************************************************************)
(* Python's integer operators on non-negative integers.                    *)
(***************************************************************************)
\* 2^n for the shifts the code makes, n in 0..23
PowersOf2 == <<1, 2, 4, 8, 16, 32, 64, 128, 256, 512, 1024, 2048, 4096, 8192,
               16384, 32768, 65536, 131072, 262144, 524288, 1048576, 2097152,
               4194304, 8388608>>

Pow2(n) == PowersOf2[n + 1]

\* a << n
Shl(a, n) == a * Pow2(n)

\* (a >> n) & 0x01
BitOf(a, n) == (a \div Pow2(n)) % 2

\* a ^ b, bit by bit
RECURSIVE XorBits(_, _)
XorBits(a, b) ==
    IF a = 0 THEN b
    ELSE IF b = 0 THEN a
    ELSE (((a % 2) + (b % 2)) % 2) + 2 * XorBits(a \div 2, b \div 2)

\* a ^ b on hex digits, tabulated once
XorNibble == [x \in 0..15 |-> [y \in 0..15 |-> XorBits(x, y)]]

\* a ^ b, hex digit by hex digit
RECURSIVE Xor(_, _)
Xor(a, b) ==
    IF a = 0 THEN b
    ELSE IF b = 0 THEN a
    ELSE XorNibble[a % 16][b % 16] + 16 * Xor(a \div 16, b \div 16)

(***************************************************************************)
(* Hex text: "{0:02x}".format(v) and int(s, 16).                           *)
(***************************************************************************)
HexDigits == <<"0","1","2","3","4","5","6","7","8","9","a","b","c","d","e","f">>

UpperHexDigits == <<"0","1","2","3","4","5","6","7","8","9","A","B","C","D","E","F">>

RECURSIVE HexOf(_)
HexOf(v) == IF v < 16 THEN <<HexDigits[v + 1]>>
            ELSE Append(HexOf(v \div 16), HexDigits[(v % 16) + 1])

\* "{0:02x}".format(v): lower-case hex, zero-padded to at least two digits
Format02x(v) == IF v < 16 THEN <<"0">> \o HexOf(v) ELSE HexOf(v)

\* the value of one hex digit, either case
HexDigitValue(c) ==
    IF \E i \in 1..16 : HexDigits[i] = c
    THEN (CHOOSE i \in 1..16 : HexDigits[i] = c) - 1
    ELSE (CHOOSE i \in 1..16 : UpperHexDigits[i] = c) - 1

\* int(s, 16)
RECURSIVE IntOfHex(_)
IntOfHex(s) == IF Len(s) = 0 THEN 0
               ELSE 16 * IntOfHex(SubSeq(s, 1, Len(s) - 1)) + HexDigitValue(s[Len(s)])

(***************************************************************************)
(* GF8elt: GF(2^8) = GF(2)[x]/<x^8 + x^4 + x^3 + x + 1>                     *)
(***************************************************************************)
\* GF8elt.__init__ on a hex string
GF8elt_fromhex(s) == IntOfHex(s)

\* GF8elt.__str__
GF8elt_str(a) == Format02x(a)

\* mutant: integer addition of the two bytes, + for ^
GF8elt_add_plus(a, b) == (a + b) % 256

\* GF8elt.add
GF8elt_add(a, b) == Xor(a, b)

\* GF8elt.neg
GF8elt_neg(a) == a

\* GF8elt.sub
GF8elt_sub(a, b) == GF8elt_add(a, b)

\* mutant: the constant for x^15 mistyped (2e for 2f)
reductable_typo == <<27, 54, 108, 216, 171, 77, 154, 46>>

\* reductable of GF8elt.__reduceGF8
reductable == <<27, 54, 108, 216, 171, 77, 154, 47>>

\* GF8elt.__reduceGF8: fold the bits 8..15 of thevalue through reductable
RECURSIVE reduceFeedback(_, _)
reduceFeedback(thevalue, i) ==
    IF i > 15 THEN 0
    ELSE Xor(IF BitOf(thevalue, i) = 1 THEN reductable[i - 8 + 1] ELSE 0,
             reduceFeedback(thevalue, i + 1))

\* mutant: the low byte is not masked, thevalue for (thevalue & 0xff)
reduceGF8_nomask(thevalue) == Xor(thevalue, reduceFeedback(thevalue, 8))

\* GF8elt.__reduceGF8: the low byte xor the feedback
reduceGF8(thevalue) == Xor(thevalue % 256, reduceFeedback(thevalue, 8))

\* mutant: the product loop stops at bit 6 of amult, range(7) for range(8)
RECURSIVE mulLoop_short(_, _, _)
mulLoop_short(amult, bmult, i) ==
    IF i > 6 THEN 0
    ELSE Xor(IF BitOf(amult, i) = 1 THEN Shl(bmult, i) ELSE 0,
             mulLoop_short(amult, bmult, i + 1))

\* the carry-less product loop of GF8elt.mul: bits 0..7 of amult select shifts of bmult
RECURSIVE mulLoop(_, _, _)
mulLoop(amult, bmult, i) ==
    IF i > 7 THEN 0
    ELSE Xor(IF BitOf(amult, i) = 1 THEN Shl(bmult, i) ELSE 0,
             mulLoop(amult, bmult, i + 1))

\* mutant: the product returned without __reduceGF8
GF8elt_mul_unreduced(a, b) == mulLoop(a, b, 0)

\* GF8elt.mul
GF8elt_mul(a, b) == reduceGF8(mulLoop(a, b, 0))

\* GF8elt.__GF8inv: the hard-coded table, hex text to hex text
GF8inv ==
     (<<"0","0">> :> <<"0","0">>) @@ (<<"0","1">> :> <<"0","1">>) @@ (<<"0","2">> :> <<"8","d">>) @@ (<<"0","3">> :> <<"f","6">>) @@
     (<<"0","4">> :> <<"c","b">>) @@ (<<"0","5">> :> <<"5","2">>) @@ (<<"0","6">> :> <<"7","b">>) @@ (<<"0","7">> :> <<"d","1">>) @@
     (<<"0","8">> :> <<"e","8">>) @@ (<<"0","9">> :> <<"4","f">>) @@ (<<"0","a">> :> <<"2","9">>) @@ (<<"0","b">> :> <<"c","0">>) @@
     (<<"0","c">> :> <<"b","0">>) @@ (<<"0","d">> :> <<"e","1">>) @@ (<<"0","e">> :> <<"e","5">>) @@ (<<"0","f">> :> <<"c","7">>) @@
     (<<"1","0">> :> <<"7","4">>) @@ (<<"1","1">> :> <<"b","4">>) @@ (<<"1","2">> :> <<"a","a">>) @@ (<<"1","3">> :> <<"4","b">>) @@
     (<<"1","4">> :> <<"9","9">>) @@ (<<"1","5">> :> <<"2","b">>) @@ (<<"1","6">> :> <<"6","0">>) @@ (<<"1","7">> :> <<"5","f">>) @@
     (<<"1","8">> :> <<"5","8">>) @@ (<<"1","9">> :> <<"3","f">>) @@ (<<"1","a">> :> <<"f","d">>) @@ (<<"1","b">> :> <<"c","c">>) @@
     (<<"1","c">> :> <<"f","f">>) @@ (<<"1","d">> :> <<"4","0">>) @@ (<<"1","e">> :> <<"e","e">>) @@ (<<"1","f">> :> <<"b","2">>) @@
     (<<"2","0">> :> <<"3","a">>) @@ (<<"2","1">> :> <<"6","e">>) @@ (<<"2","2">> :> <<"5","a">>) @@ (<<"2","3">> :> <<"f","1">>) @@
     (<<"2","4">> :> <<"5","5">>) @@ (<<"2","5">> :> <<"4","d">>) @@ (<<"2","6">> :> <<"a","8">>) @@ (<<"2","7">> :> <<"c","9">>) @@
     (<<"2","8">> :> <<"c","1">>) @@ (<<"2","9">> :> <<"0","a">>) @@ (<<"2","a">> :> <<"9","8">>) @@ (<<"2","b">> :> <<"1","5">>) @@
     (<<"2","c">> :> <<"3","0">>) @@ (<<"2","d">> :> <<"4","4">>) @@ (<<"2","e">> :> <<"a","2">>) @@ (<<"2","f">> :> <<"c","2">>) @@
     (<<"3","0">> :> <<"2","c">>) @@ (<<"3","1">> :> <<"4","5">>) @@ (<<"3","2">> :> <<"9","2">>) @@ (<<"3","3">> :> <<"6","c">>) @@
     (<<"3","4">> :> <<"f","3">>) @@ (<<"3","5">> :> <<"3","9">>) @@ (<<"3","6">> :> <<"6","6">>) @@ (<<"3","7">> :> <<"4","2">>) @@
     (<<"3","8">> :> <<"f","2">>) @@ (<<"3","9">> :> <<"3","5">>) @@ (<<"3","a">> :> <<"2","0">>) @@ (<<"3","b">> :> <<"6","f">>) @@
     (<<"3","c">> :> <<"7","7">>) @@ (<<"3","d">> :> <<"b","b">>) @@ (<<"3","e">> :> <<"5","9">>) @@ (<<"3","f">> :> <<"1","9">>) @@
     (<<"4","0">> :> <<"1","d">>) @@ (<<"4","1">> :> <<"f","e">>) @@ (<<"4","2">> :> <<"3","7">>) @@ (<<"4","3">> :> <<"6","7">>) @@
     (<<"4","4">> :> <<"2","d">>) @@ (<<"4","5">> :> <<"3","1">>) @@ (<<"4","6">> :> <<"f","5">>) @@ (<<"4","7">> :> <<"6","9">>) @@
     (<<"4","8">> :> <<"a","7">>) @@ (<<"4","9">> :> <<"6","4">>) @@ (<<"4","a">> :> <<"a","b">>) @@ (<<"4","b">> :> <<"1","3">>) @@
     (<<"4","c">> :> <<"5","4">>) @@ (<<"4","d">> :> <<"2","5">>) @@ (<<"4","e">> :> <<"e","9">>) @@ (<<"4","f">> :> <<"0","9">>) @@
     (<<"5","0">> :> <<"e","d">>) @@ (<<"5","1">> :> <<"5","c">>) @@ (<<"5","2">> :> <<"0","5">>) @@ (<<"5","3">> :> <<"c","a">>) @@
     (<<"5","4">> :> <<"4","c">>) @@ (<<"5","5">> :> <<"2","4">>) @@ (<<"5","6">> :> <<"8","7">>) @@ (<<"5","7">> :> <<"b","f">>) @@
     (<<"5","8">> :> <<"1","8">>) @@ (<<"5","9">> :> <<"3","e">>) @@ (<<"5","a">> :> <<"2","2">>) @@ (<<"5","b">> :> <<"f","0">>) @@
     (<<"5","c">> :> <<"5","1">>) @@ (<<"5","d">> :> <<"e","c">>) @@ (<<"5","e">> :> <<"6","1">>) @@ (<<"5","f">> :> <<"1","7">>) @@
     (<<"6","0">> :> <<"1","6">>) @@ (<<"6","1">> :> <<"5","e">>) @@ (<<"6","2">> :> <<"a","f">>) @@ (<<"6","3">> :> <<"d","3">>) @@
     (<<"6","4">> :> <<"4","9">>) @@ (<<"6","5">> :> <<"a","6">>) @@ (<<"6","6">> :> <<"3","6">>) @@ (<<"6","7">> :> <<"4","3">>) @@
     (<<"6","8">> :> <<"f","4">>) @@ (<<"6","9">> :> <<"4","7">>) @@ (<<"6","a">> :> <<"9","1">>) @@ (<<"6","b">> :> <<"d","f">>) @@
     (<<"6","c">> :> <<"3","3">>) @@ (<<"6","d">> :> <<"9","3">>) @@ (<<"6","e">> :> <<"2","1">>) @@ (<<"6","f">> :> <<"3","b">>) @@
     (<<"7","0">> :> <<"7","9">>) @@ (<<"7","1">> :> <<"b","7">>) @@ (<<"7","2">> :> <<"9","7">>) @@ (<<"7","3">> :> <<"8","5">>) @@
     (<<"7","4">> :> <<"1","0">>) @@ (<<"7","5">> :> <<"b","5">>) @@ (<<"7","6">> :> <<"b","a">>) @@ (<<"7","7">> :> <<"3","c">>) @@
     (<<"7","8">> :> <<"b","6">>) @@ (<<"7","9">> :> <<"7","0">>) @@ (<<"7","a">> :> <<"d","0">>) @@ (<<"7","b">> :> <<"0","6">>) @@
     (<<"7","c">> :> <<"a","1">>) @@ (<<"7","d">> :> <<"f","a">>) @@ (<<"7","e">> :> <<"8","1">>) @@ (<<"7","f">> :> <<"8","2">>) @@
     (<<"8","0">> :> <<"8","3">>) @@ (<<"8","1">> :> <<"7","e">>) @@ (<<"8","2">> :> <<"7","f">>) @@ (<<"8","3">> :> <<"8","0">>) @@
     (<<"8","4">> :> <<"9","6">>) @@ (<<"8","5">> :> <<"7","3">>) @@ (<<"8","6">> :> <<"b","e">>) @@ (<<"8","7">> :> <<"5","6">>) @@
     (<<"8","8">> :> <<"9","b">>) @@ (<<"8","9">> :> <<"9","e">>) @@ (<<"8","a">> :> <<"9","5">>) @@ (<<"8","b">> :> <<"d","9">>) @@
     (<<"8","c">> :> <<"f","7">>) @@ (<<"8","d">> :> <<"0","2">>) @@ (<<"8","e">> :> <<"b","9">>) @@ (<<"8","f">> :> <<"a","4">>) @@
     (<<"9","0">> :> <<"d","e">>) @@ (<<"9","1">> :> <<"6","a">>) @@ (<<"9","2">> :> <<"3","2">>) @@ (<<"9","3">> :> <<"6","d">>) @@
     (<<"9","4">> :> <<"d","8">>) @@ (<<"9","5">> :> <<"8","a">>) @@ (<<"9","6">> :> <<"8","4">>) @@ (<<"9","7">> :> <<"7","2">>) @@
     (<<"9","8">> :> <<"2","a">>) @@ (<<"9","9">> :> <<"1","4">>) @@ (<<"9","a">> :> <<"9","f">>) @@ (<<"9","b">> :> <<"8","8">>) @@
     (<<"9","c">> :> <<"f","9">>) @@ (<<"9","d">> :> <<"d","c">>) @@ (<<"9","e">> :> <<"8","9">>) @@ (<<"9","f">> :> <<"9","a">>) @@
     (<<"a","0">> :> <<"f","b">>) @@ (<<"a","1">> :> <<"7","c">>) @@ (<<"a","2">> :> <<"2","e">>) @@ (<<"a","3">> :> <<"c","3">>) @@
     (<<"a","4">> :> <<"8","f">>) @@ (<<"a","5">> :> <<"b","8">>) @@ (<<"a","6">> :> <<"6","5">>) @@ (<<"a","7">> :> <<"4","8">>) @@
     (<<"a","8">> :> <<"2","6">>) @@ (<<"a","9">> :> <<"c","8">>) @@ (<<"a","a">> :> <<"1","2">>) @@ (<<"a","b">> :> <<"4","a">>) @@
     (<<"a","c">> :> <<"c","e">>) @@ (<<"a","d">> :> <<"e","7">>) @@ (<<"a","e">> :> <<"d","2">>) @@ (<<"a","f">> :> <<"6","2">>) @@
     (<<"b","0">> :> <<"0","c">>) @@ (<<"b","1">> :> <<"e","0">>) @@ (<<"b","2">> :> <<"1","f">>) @@ (<<"b","3">> :> <<"e","f">>) @@
     (<<"b","4">> :> <<"1","1">>) @@ (<<"b","5">> :> <<"7","5">>) @@ (<<"b","6">> :> <<"7","8">>) @@ (<<"b","7">> :> <<"7","1">>) @@
     (<<"b","8">> :> <<"a","5">>) @@ (<<"b","9">> :> <<"8","e">>) @@ (<<"b","a">> :> <<"7","6">>) @@ (<<"b","b">> :> <<"3","d">>) @@
     (<<"b","c">> :> <<"b","d">>) @@ (<<"b","d">> :> <<"b","c">>) @@ (<<"b","e">> :> <<"8","6">>) @@ (<<"b","f">> :> <<"5","7">>) @@
     (<<"c","0">> :> <<"0","b">>) @@ (<<"c","1">> :> <<"2","8">>) @@ (<<"c","2">> :> <<"2","f">>) @@ (<<"c","3">> :> <<"a","3">>) @@
     (<<"c","4">> :> <<"d","a">>) @@ (<<"c","5">> :> <<"d","4">>) @@ (<<"c","6">> :> <<"e","4">>) @@ (<<"c","7">> :> <<"0","f">>) @@
     (<<"c","8">> :> <<"a","9">>) @@ (<<"c","9">> :> <<"2","7">>) @@ (<<"c","a">> :> <<"5","3">>) @@ (<<"c","b">> :> <<"0","4">>) @@
     (<<"c","c">> :> <<"1","b">>) @@ (<<"c","d">> :> <<"f","c">>) @@ (<<"c","e">> :> <<"a","c">>) @@ (<<"c","f">> :> <<"e","6">>) @@
     (<<"d","0">> :> <<"7","a">>) @@ (<<"d","1">> :> <<"0","7">>) @@ (<<"d","2">> :> <<"a","e">>) @@ (<<"d","3">> :> <<"6","3">>) @@
     (<<"d","4">> :> <<"c","5">>) @@ (<<"d","5">> :> <<"d","b">>) @@ (<<"d","6">> :> <<"e","2">>) @@ (<<"d","7">> :> <<"e","a">>) @@
     (<<"d","8">> :> <<"9","4">>) @@ (<<"d","9">> :> <<"8","b">>) @@ (<<"d","a">> :> <<"c","4">>) @@ (<<"d","b">> :> <<"d","5">>) @@
     (<<"d","c">> :> <<"9","d">>) @@ (<<"d","d">> :> <<"f","8">>) @@ (<<"d","e">> :> <<"9","0">>) @@ (<<"d","f">> :> <<"6","b">>) @@
     (<<"e","0">> :> <<"b","1">>) @@ (<<"e","1">> :> <<"0","d">>) @@ (<<"e","2">> :> <<"d","6">>) @@ (<<"e","3">> :> <<"e","b">>) @@
     (<<"e","4">> :> <<"c","6">>) @@ (<<"e","5">> :> <<"0","e">>) @@ (<<"e","6">> :> <<"c","f">>) @@ (<<"e","7">> :> <<"a","d">>) @@
     (<<"e","8">> :> <<"0","8">>) @@ (<<"e","9">> :> <<"4","e">>) @@ (<<"e","a">> :> <<"d","7">>) @@ (<<"e","b">> :> <<"e","3">>) @@
     (<<"e","c">> :> <<"5","d">>) @@ (<<"e","d">> :> <<"5","0">>) @@ (<<"e","e">> :> <<"1","e">>) @@ (<<"e","f">> :> <<"b","3">>) @@
     (<<"f","0">> :> <<"5","b">>) @@ (<<"f","1">> :> <<"2","3">>) @@ (<<"f","2">> :> <<"3","8">>) @@ (<<"f","3">> :> <<"3","4">>) @@
     (<<"f","4">> :> <<"6","8">>) @@ (<<"f","5">> :> <<"4","6">>) @@ (<<"f","6">> :> <<"0","3">>) @@ (<<"f","7">> :> <<"8","c">>) @@
     (<<"f","8">> :> <<"d","d">>) @@ (<<"f","9">> :> <<"9","c">>) @@ (<<"f","a">> :> <<"7","d">>) @@ (<<"f","b">> :> <<"a","0">>) @@
     (<<"f","c">> :> <<"c","d">>) @@ (<<"f","d">> :> <<"1","a">>) @@ (<<"f","e">> :> <<"4","1">>) @@ (<<"f","f">> :> <<"1","c">>)

\* the key GF8elt.inv looks up for a
GF8invKey(a) == GF8elt_str(a)

\* mutant: the zero test of GF8elt.inv left out
GF8elt_inv_raises_never(a) == FALSE

\* GF8elt.inv raises ZeroDivisionError
GF8elt_inv_raises(a) == a = 0

\* mutant: the table entry for 53 mistyped (cb for ca)
GF8elt_inv_typo(a) ==
    GF8elt_fromhex(IF GF8invKey(a) = <<"5", "3">> THEN <<"c", "b">>
                   ELSE GF8inv[GF8invKey(a)])

\* GF8elt.inv when it returns
GF8elt_inv(a) == GF8elt_fromhex(GF8inv[GF8invKey(a)])

\* GF8elt.div
GF8elt_div_raises(a, b) == GF8elt_inv_raises(b)

GF8elt_div(a, b) == GF8elt_mul(a, GF8elt_inv(b))

(***************************************************************************)
(* GF16elt: GF(2^16) = GF8[z]/<z^2 + z + 3A>, an element is <<c0, c1>>     *)
(***************************************************************************)
\* GF16.m = basefield('3A')
GF16_m == GF8elt_fromhex(<<"3", "A">>)

\* GF16elt.__init__ on an integer: [basefield(value), basefield(0)]
GF16elt_fromint(v) == <<v, 0>>

\* GF16elt.add
GF16elt_add(a, b) == <<GF8elt_add(a[1], b[1]), GF8elt_add(a[2], b[2])>>

\* GF16elt.neg
GF16elt_neg(a) == a

\* GF16elt.sub
GF16elt_sub(a, b) == GF16elt_add(a, b)

\* mutant: z^2 reduced to m alone, the z term of z^2 = z + m dropped
reduceGF16_noz(thelist) ==
    <<GF8elt_add(thelist[1], GF8elt_mul(thelist[3], GF16_m)), thelist[2]>>

\* GF16elt.__reduceGF16 on the 3-long list of GF8 values
reduceGF16(thelist) ==
    <<GF8elt_add(thelist[1], GF8elt_mul(thelist[3], GF16_m)),
      GF8elt_add(thelist[2], thelist[3])>>

\* GF16elt.mul
GF16elt_mul(a, b) ==
    reduceGF16(<<GF8elt_mul(a[1], b[1]),
                 GF8elt_add(GF8elt_mul(a[1], b[2]), GF8elt_mul(a[2], b[1])),
                 GF8elt_mul(a[2], b[2])>>)

\* mutant: d = (u + v)v + m u, the square forgotten
GF16elt_inv_d_nosquare(a) ==
    GF8elt_add(GF8elt_mul(GF8elt_add(a[2], a[1]), a[1]),
               GF8elt_mul(GF16_m, a[2]))

\* d of GF16elt.inv: (u + v)v + m u^2 with u = coeffs[1], v = coeffs[0]
GF16elt_inv_d(a) ==
    GF8elt_add(GF8elt_mul(GF8elt_add(a[2], a[1]), a[1]),
               GF8elt_mul(GF16_m, GF8elt_mul(a[2], a[2])))

\* GF16elt.inv raises ZeroDivisionError: its own zero test, or d.inv()
GF16elt_inv_raises(a) ==
    (a[1] = 0 /\ a[2] = 0) \/ GF8elt_inv_raises(GF16elt_inv_d(a))

\* GF16elt.inv when it returns
GF16elt_inv(a) ==
    LET dinv == GF8elt_inv(GF16elt_inv_d(a))
    IN  <<GF8elt_mul(GF8elt_add(a[1], a[2]), dinv), GF8elt_mul(a[2], dinv)>>

\* GF16elt.div
GF16elt_div_raises(a, b) == GF16elt_inv_raises(b)

GF16elt_div(a, b) == GF16elt_mul(a, GF16elt_inv(b))

(***************************************************************************)
(* GFpelt: GF(p), an element is its value; p is field.prime                *)
(***************************************************************************)
\* GFpelt.__normalize
GFpelt_normalize(p, value) == ((value % p) + p) % p

\* Python values: an integer, an element of GF(q)
PyInt(n) == [type |-> "int", prime |-> 0, v |-> n]

PyGFpelt(q, n) == [type |-> "GFpelt", prime |-> q, v |-> n]

\* mutant: an integer is stored as given, never normalized
GFpelt_init_raw(p, val) ==
    IF val.type = "GFpelt" THEN val.v
    ELSE val.v

\* GFpelt.__init__: the value stored in an element of GF(p) built from val;
\* a GFpelt is stripped, an integer normalized, anything else kept as it is
GFpelt_init(p, val) ==
    IF val.type = "GFpelt" THEN val.v
    ELSE IF val.type = "int" THEN GFpelt_normalize(p, val.v)
    ELSE val

\* GFpelt.add
GFpelt_add(p, a, b) == (a + b) % p

\* GFpelt.neg
GFpelt_neg(p, a) == (p - a) % p

\* GFpelt.sub
GFpelt_sub(p, a, b) == GFpelt_add(p, a, GFpelt_neg(p, b))

\* GFpelt.mul on a GFpelt
GFpelt_mul(p, a, b) == (a * b) % p

\* GFpelt.mul on an integer
GFpelt_mul_int(p, a, n) == (a * GFpelt_normalize(p, n)) % p

\* GFpelt.__xgcd: the while(1) loop on [a, b, a1, b1, a2, b2] with a, b >= 0;
\* returns <<g, x, y>> before the signs aneg, bneg are applied
RECURSIVE xgcdLoop(_)
xgcdLoop(s) ==
    LET quot1 == -(s.a \div s.b)
        na    == s.a % s.b
        na1   == s.a1 + quot1 * s.a2
        nb1   == s.b1 + quot1 * s.b2
    IN  IF na = 0 THEN <<s.b, s.a2, s.b2>>
        ELSE LET quot2 == -(s.b \div na)
                 nb    == s.b % na
                 na2   == s.a2 + quot2 * na1
                 nb2   == s.b2 + quot2 * nb1
             IN  IF nb = 0 THEN <<na, na1, nb1>>
                 ELSE xgcdLoop([a |-> na, b |-> nb, a1 |-> na1, b1 |-> nb1,
                                a2 |-> na2, b2 |-> nb2])

xgcd(a, b) ==
    LET aneg == IF a < 0 THEN -1 ELSE 1
        bneg == IF b < 0 THEN -1 ELSE 1
        r    == xgcdLoop([a |-> a * aneg, b |-> b * bneg,
                          a1 |-> 1, b1 |-> 0, a2 |-> 0, b2 |-> 1])
    IN  <<r[1], r[2] * aneg, r[3] * bneg>>

\* mutant: the zero test of GFpelt.inv left out
GFpelt_inv_raises_never(a) == FALSE

\* GFpelt.inv raises ZeroDivisionError
GFpelt_inv_raises(a) == a = 0

\* mutant: the Bezout coefficient of p taken for that of a
GFpelt_inv_wrongcoeff(p, a) == GFpelt_normalize(p, xgcd(a, p)[3])

\* GFpelt.inv when it returns
GFpelt_inv(p, a) == GFpelt_normalize(p, xgcd(a, p)[2])

\* GFpelt.div
GFpelt_div_raises(a, b) == GFpelt_inv_raises(b)

GFpelt_div(p, a, b) == GFpelt_mul(p, a, GFpelt_inv(p, b))

(***************************************************************************)
(* The field capability fit and eval are written against: the method of   *)
(* the element's class is the one called.                                  *)
(***************************************************************************)
\* thefield(n) for an integer n: GF8.__call__, GF16.__call__, GFp.__call__
FromInt(f, n) ==
    CASE f.kind = "GF8"  -> n
      [] f.kind = "GF16" -> GF16elt_fromint(n)
      [] f.kind = "GFp"  -> GFpelt_normalize(f.prime, n)

\* thefield(v) for a coordinate of a point: an element of GF8 or GF16 is
\* copied, an integer handed to GFp is normalized
Coerce(f, v) ==
    CASE f.kind = "GF8"  -> v
      [] f.kind = "GF16" -> v
      [] f.kind = "GFp"  -> GFpelt_normalize(f.prime, v)

add(f, x, y) ==
    CASE f.kind = "GF8"  -> GF8elt_add(x, y)
      [] f.kind = "GF16" -> GF16elt_add(x, y)
      [] f.kind = "GFp"  -> GFpelt_add(f.prime, x, y)

neg(f, x) ==
    CASE f.kind = "GF8"  -> GF8elt_neg(x)
      [] f.kind = "GF16" -> GF16elt_neg(x)
      [] f.kind = "GFp"  -> GFpelt_neg(f.prime, x)

sub(f, x, y) ==
    CASE f.kind = "GF8"  -> GF8elt_sub(x, y)
      [] f.kind = "GF16" -> GF16elt_sub(x, y)
      [] f.kind = "GFp"  -> GFpelt_sub(f.prime, x, y)

mul(f, x, y) ==
    CASE f.kind = "GF8"  -> GF8elt_mul(x, y)
      [] f.kind = "GF16" -> GF16elt_mul(x, y)
      [] f.kind = "GFp"  -> GFpelt_mul(f.prime, x, y)

inv_raises(f, x) ==
    CASE f.kind = "GF8"  -> GF8elt_inv_raises(x)
      [] f.kind = "GF16" -> GF16elt_inv_raises(x)
      [] f.kind = "GFp"  -> GFpelt_inv_raises(x)

inv(f, x) ==
    CASE f.kind = "GF8"  -> GF8elt_inv(x)
      [] f.kind = "GF16" -> GF16elt_inv(x)
      [] f.kind = "GFp"  -> GFpelt_inv(f.prime, x)

div_raises(f, x, y) ==
    CASE f.kind = "GF8"  -> GF8elt_div_raises(x, y)
      [] f.kind = "GF16" -> GF16elt_div_raises(x, y)
      [] f.kind = "GFp"  -> GFpelt_div_raises(x, y)

div(f, x, y) ==
    CASE f.kind = "GF8"  -> GF8elt_div(x, y)
      [] f.kind = "GF16" -> GF16elt_div(x, y)
      [] f.kind = "GFp"  -> GFpelt_div(f.prime, x, y)

\* the keys of __GF8inv an inv on x consults (none when it raises first)
invLookups(f, x) ==
    CASE f.kind = "GF8"  -> IF GF8elt_inv_raises(x) THEN {} ELSE {GF8invKey(x)}
      [] f.kind = "GF16" -> IF GF16elt_inv_raises(x) THEN {}
                            ELSE {GF8invKey(GF16elt_inv_d(x))}
      [] f.kind = "GFp"  -> {}

(***************************************************************************)
(* fit (Lagrange interpolation) and eval (Horner), on coefficient lists    *)
(***************************************************************************)
\* theterm = [thefield(1)] + (ptslen-1)*[thefield(0)]
initTerm(f, ptslen) ==
    [k \in 1..ptslen |-> IF k = 1 THEN FromInt(f, 1) ELSE FromInt(f, 0)]

\* mutant: the factor taken as (x + xj), neg() left out
RECURSIVE sweep_noneg(_, _, _, _)
sweep_noneg(f, term, xj, k) ==
    IF k < 1 THEN term
    ELSE LET t1 == [term EXCEPT ![k + 1] = add(f, term[k + 1], term[k])]
             t2 == [t1 EXCEPT ![k] = mul(f, t1[k], xj)]
         IN  sweep_noneg(f, t2, xj, k - 1)

\* mutant: the k loop runs upward, range(1, ptslen)
RECURSIVE sweep_upward(_, _, _, _)
sweep_upward(f, term, xj, k) ==
    IF k < 1 THEN term
    ELSE LET t0 == sweep_upward(f, term, xj, k - 1)
             t1 == [t0 EXCEPT ![k + 1] = add(f, t0[k + 1], t0[k])]
         IN  [t1 EXCEPT ![k] = neg(f, mul(f, t1[k], xj))]

\* the k loop of fit, k = ptslen-1 down to 1: multiply theterm by (x - xj)
RECURSIVE sweep(_, _, _, _)
sweep(f, term, xj, k) ==
    IF k < 1 THEN term
    ELSE LET t1 == [term EXCEPT ![k + 1] = add(f, term[k + 1], term[k])]
             t2 == [t1 EXCEPT ![k] = neg(f, mul(f, t1[k], xj))]
         IN  sweep(f, t2, xj, k - 1)

\* mutant: thepoly[k] overwritten by the term instead of added to
accumulate_overwrite(f, poly, term, prod) ==
    [k \in 1..Len(poly) |-> mul(f, term[k], prod)]

\* mutant: a zero in the highest place of the sum is dropped
accumulate_trimmed(f, poly, term, prod) ==
    LET full == [k \in 1..Len(poly) |-> add(f, poly[k], mul(f, term[k], prod))]
    IN  IF Len(full) > 0 /\ full[Len(full)] = FromInt(f, 0)
        THEN SubSeq(full, 1, Len(full) - 1)
        ELSE full

\* thepoly[k] = thepoly[k].add(theterm[k].mul(theprod)) for every k
accumulate(f, poly, term, prod) ==
    [k \in 1..Len(poly) |-> add(f, poly[k], mul(f, term[k], prod))]

\* the generator (j for j in range(ptslen) if i != j): the first index >= from
nextJ(ii, from) == IF from = ii THEN from + 1 ELSE from

\* theval.mul(xvalue) in eval: xvalue is an element, or an integer for GFp
mulArg(f, x, xvalue) ==
    CASE f.kind = "GF8"  -> GF8elt_mul(x, xvalue)
      [] f.kind = "GF16" -> GF16elt_mul(x, xvalue)
      [] f.kind = "GFp"  -> GFpelt_mul_int(f.prime, x, xvalue)

\* mutant: the loop stops above the constant term, range(polydeg-1, 0, -1)
RECURSIVE evalLoop_noconst(_, _, _, _, _)
evalLoop_noconst(f, poly, xv, val, theindex) ==
    IF theindex < 1 THEN val
    ELSE evalLoop_noconst(f, poly, xv, add(f, mulArg(f, val, xv), poly[theindex + 1]),
                          theindex - 1)

\* the loop of eval, theindex = polydeg-1 down to 0
RECURSIVE evalLoop(_, _, _, _, _)
evalLoop(f, poly, xv, val, theindex) ==
    IF theindex < 0 THEN val
    ELSE evalLoop(f, poly, xv, add(f, mulArg(f, val, xv), poly[theindex + 1]),
                  theindex - 1)

\* mutant: theval starts from poly[0], the lowest coefficient
eval_fromlow(f, poly, xv) == evalLoop(f, poly, xv, poly[1], Len(poly) - 2)

\* eval(poly, xvalue) for a non-empty poly
eval(f, poly, xv) == evalLoop(f, poly, xv, poly[Len(poly)], Len(poly) - 2)

(***************************************************************************)
(* Bounds and inputs                                                       *)
(***************************************************************************)
\* most points handed to fit
MaxPts == 3

\* share indices are drawn from the first MaxX+1 entries of the index lists
MaxX == 3

\* y lists are the windows of the value lists that start at 0..MaxSeed
MaxSeed == 5

\* GF(p) is checked for the primes up to MaxPrime in the field operations,
\* up to MaxFitPrime under fit
MaxPrime == 13

MaxFitPrime == 5

\* GF16 operands of the field operations take their coefficients from the
\* first MaxByteIdx+1 entries of ByteSeq
MaxByteIdx == 7

\* the integers handed to a constructor are -MaxInt..MaxInt
MaxInt == 30

\* the longest text handed to a constructor
MaxStrLen == 3

\* the longest bit list handed to GF8elt
MaxBits == 9

\* the longest coefficient list handed to GF16elt
MaxCoeffs == 3

IsPrime(n) == n >= 2 /\ \A d \in 2..(n - 1) : n % d # 0

Primes(max) == {n \in 2..max : IsPrime(n)}

GF8field == [kind |-> "GF8", prime |-> 0]

GF16field == [kind |-> "GF16", prime |-> 0]

GFpfield(p) == [kind |-> "GFp", prime |-> p]

\* sample bytes: 0, 1, 2, the inverse pair ca/53, m = 3a, ff, ...
ByteSeq == <<0, 1, 2, 202, 83, 58, 255, 3, 141, 246, 128, 27>>

HighSeq == <<0, 0, 0, 1, 83, 2, 255, 58, 0, 1, 202, 3>>

\* y values: zeros, one, and the bytes of the documented examples
YBytes == <<0, 0, 0, 1, 69, 65, 195, 130, 255, 171, 17, 26>>

YHigh == <<0, 0, 0, 0, 205, 171, 43, 1, 52, 255, 0, 210>>

YInts == <<0, 0, 0, 1, 35, 92, 11, -2, 101, 95, 41, 7>>

At(seq, idx) == seq[(idx % Len(seq)) + 1]

\* the share indices offered to fit and the points offered to eval
FitXs(f) ==
    CASE f.kind = "GF8"  -> {At(ByteSeq, k) : k \in 0..MaxX}
      [] f.kind = "GF16" -> {<<At(ByteSeq, k), At(HighSeq, k)>> : k \in 0..MaxX}
      [] f.kind = "GFp"  -> 0..MaxX

\* the idx-th y value offered to fit
YVal(f, idx) ==
    CASE f.kind = "GF8"  -> At(YBytes, idx)
      [] f.kind = "GF16" -> <<At(YBytes, idx), At(YHigh, idx)>>
      [] f.kind = "GFp"  -> At(YInts, idx)

FitFields == {GF8field, GF16field} \cup {GFpfield(p) : p \in Primes(MaxFitPrime)}

OpFields == {GF8field, GF16field} \cup {GFpfield(p) : p \in Primes(MaxPrime)}

SampleBytes == {At(ByteSeq, k) : k \in 0..MaxByteIdx}

\* the operands of the field operations: every byte, sampled byte pairs,
\* every residue
Elems(f) ==
    CASE f.kind = "GF8"  -> 0..255
      [] f.kind = "GF16" -> SampleBytes \X SampleBytes
      [] f.kind = "GFp"  -> 0..(f.prime - 1)

(***************************************************************************)
(* State                                                                   *)
(***************************************************************************)
VARIABLES
    field,      \* the field descriptor in use
    pc,         \* where the caller is
    exc,        \* the exception raised, "none" when none
    a, b,       \* operands of a field operation
    c,          \* third operand of a chained operation
    thevalue,   \* the Python value handed to a constructor, 0 when none
    selfcoeffs, \* self.coeffs of a PolyFieldUnivElt, the operand of its methods
    argcoeffs,  \* the coeffs of the polynomial handed to add or mul
    var,        \* GF16().var, "" when no GF16 descriptor is looked at
    fmtspec,    \* GF16().fmtspec, "" when no GF16 descriptor is looked at
    callers,    \* the locals of each concurrent caller of fit and eval
    calls,      \* how often fit, then eval, called mul and add of the field
    frame,      \* the locals of a running GFpelt.__xgcd, <<>> when none
    op,         \* the field operation applied
    ret,        \* <<value>> returned by the field operation, <<>> when none
    lookups,    \* keys of __GF8inv the operation looked up
    thepoints,  \* argument of fit: list of <<x, y>>
    secret,     \* the polynomial the points were split from, <<>> when none
    xvals, yvals, thepoly, theterm, theprod, i, j,   \* locals of fit
    xvalue,     \* argument of eval
    theval      \* result of eval

vars == <<field, pc, exc, a, b, c, thevalue, selfcoeffs, argcoeffs, var, fmtspec,
          callers, calls, frame, op, ret, lookups, thepoints, secret,
          xvals, yvals, thepoly, theterm, theprod, i, j, xvalue, theval>>

opvars == <<a, b, op, ret, lookups>>

fitvars == <<thepoints, secret, xvals, yvals, thepoly, theterm, theprod, i, j,
             xvalue, theval>>

\* the state only some specifications use
othervars == <<c, thevalue, selfcoeffs, argcoeffs, var, fmtspec, callers, calls, frame>>

\* the same but for the counts of calls
uncounted == <<c, thevalue, selfcoeffs, argcoeffs, var, fmtspec, callers, frame>>

\* the polynomial operands, the GF16 attributes and the concurrent callers
morevars == <<selfcoeffs, argcoeffs, var, fmtspec, callers, calls, frame>>

\* no call of mul or add counted
NoCalls == [mul |-> 0, add |-> 0]

ptslen == Len(thepoints)

NoOp ==
    /\ a = 0 /\ b = 0 /\ op = "" /\ ret = <<>> /\ lookups = {}

NoFit ==
    /\ thepoints = <<>> /\ secret = <<>> /\ xvals = <<>> /\ yvals = <<>>
    /\ thepoly = <<>> /\ theterm = <<>> /\ theprod = 0 /\ i = 0 /\ j = 0
    /\ xvalue = 0 /\ theval = 0

NoMore ==
    /\ selfcoeffs = <<>> /\ argcoeffs = <<>> /\ var = "" /\ fmtspec = ""
    /\ callers = <<>> /\ calls = NoCalls /\ frame = <<>>

NoOther ==
    /\ c = 0 /\ thevalue = 0 /\ NoMore

FitLocalsInit ==
    /\ xvals = <<>> /\ yvals = <<>> /\ thepoly = <<>> /\ theterm = <<>>
    /\ theprod = 0 /\ i = 0 /\ j = 0 /\ xvalue = 0 /\ theval = 0

\* a caller about to fit a list of 1..MaxPts points of one field
InitFit ==
    /\ field \in FitFields
    /\ pc = "start" /\ exc = "none"
    /\ NoOp /\ NoOther
    /\ secret = <<>>
    /\ \E n \in 1..MaxPts : \E xs \in [1..n -> FitXs(field)] : \E seed \in 0..MaxSeed :
         thepoints = [k \in 1..n |-> <<xs[k], YVal(field, seed + k - 1)>>]
    /\ FitLocalsInit

\* a caller that split a secret polynomial of length k into shares and is
\* about to fit k of the shares
InitSplit ==
    /\ field \in FitFields
    /\ pc = "start" /\ exc = "none"
    /\ NoOp /\ NoOther
    /\ \E n \in 1..MaxPts : \E xs \in [1..n -> FitXs(field)] : \E seed \in 0..MaxSeed :
         /\ secret = [k \in 1..n |-> Coerce(field, YVal(field, seed + k - 1))]
         /\ thepoints = [k \in 1..n |-> <<xs[k], eval(field, secret, xs[k])>>]
    /\ FitLocalsInit

\* a caller about to apply one field operation to two elements
InitField ==
    /\ field \in OpFields
    /\ pc = "ready" /\ exc = "none"
    /\ a \in Elems(field) /\ b \in Elems(field)
    /\ op = "" /\ ret = <<>> /\ lookups = {}
    /\ NoFit /\ NoOther

\* a caller about to apply one operation to any element of GF16
InitGF16 ==
    /\ field = GF16field
    /\ pc = "ready" /\ exc = "none"
    /\ a \in (0..255) \X (0..255) /\ b = FromInt(field, 1)
    /\ op = "" /\ ret = <<>> /\ lookups = {}
    /\ NoFit /\ NoOther

(***************************************************************************)
(* Field operations, one call each                                         *)
(***************************************************************************)
Returns(name, value, keys) ==
    /\ op' = name /\ ret' = <<value>> /\ exc' = "none" /\ lookups' = keys
    /\ pc' = "done"
    /\ UNCHANGED <<field, a, b>> /\ UNCHANGED fitvars /\ UNCHANGED othervars

Raises(name, error, keys) ==
    /\ op' = name /\ ret' = <<>> /\ exc' = error /\ lookups' = keys
    /\ pc' = "done"
    /\ UNCHANGED <<field, a, b>> /\ UNCHANGED fitvars /\ UNCHANGED othervars

\* a.add(b)
OpAdd == pc = "ready" /\ Returns("add", add(field, a, b), {})

\* a.neg()
OpNeg == pc = "ready" /\ Returns("neg", neg(field, a), {})

\* a.sub(b)
OpSub == pc = "ready" /\ Returns("sub", sub(field, a, b), {})

\* a.mul(b)
OpMul == pc = "ready" /\ Returns("mul", mul(field, a, b), {})

\* a.inv()
OpInv ==
    /\ pc = "ready"
    /\ IF inv_raises(field, a)
       THEN Raises("inv", "ZeroDivisionError", invLookups(field, a))
       ELSE Returns("inv", inv(field, a), invLookups(field, a))

\* a.div(b)
OpDiv ==
    /\ pc = "ready"
    /\ IF div_raises(field, a, b)
       THEN Raises("div", "ZeroDivisionError", invLookups(field, b))
       ELSE Returns("div", div(field, a, b), invLookups(field, b))

(***************************************************************************)
(* fit(thepoints, thefield), one action per step of its loops, then eval   *)
(***************************************************************************)
\* mutant: a step counted as one call of mul however many it made
Called_once(muls, adds) == [mul |-> calls.mul + 1, add |-> calls.add + adds]

\* calls after muls more calls of mul and adds more calls of add; sub and
\* div are counted by the add and the mul they make
Called(muls, adds) == [mul |-> calls.mul + muls, add |-> calls.add + adds]

\* the passes of the loop of eval from theindex down to 0, each one mul
\* and one add
RECURSIVE evalPasses(_)
evalPasses(theindex) == IF theindex < 0 THEN 0 ELSE 1 + evalPasses(theindex - 1)

\* lines 610-615: the zero polynomial, the coerced coordinates
FitBegin ==
    /\ pc = "start"
    /\ thepoly' = [k \in 1..ptslen |-> FromInt(field, 0)]
    /\ xvals' = [k \in 1..ptslen |-> Coerce(field, thepoints[k][1])]
    /\ yvals' = [k \in 1..ptslen |-> Coerce(field, thepoints[k][2])]
    /\ i' = 0
    /\ pc' = "outer"
    /\ UNCHANGED <<field, exc, thepoints, secret, theterm, theprod, j, xvalue, theval>>
    /\ UNCHANGED opvars /\ UNCHANGED othervars

\* lines 616-618: the next i, theterm = 1, theprod = 1
FitTerm ==
    /\ pc = "outer" /\ i < ptslen
    /\ theterm' = initTerm(field, ptslen)
    /\ theprod' = FromInt(field, 1)
    /\ j' = nextJ(i, 0)
    /\ pc' = "inner"
    /\ UNCHANGED <<field, exc, thepoints, secret, xvals, yvals, thepoly, i, xvalue, theval>>
    /\ UNCHANGED opvars /\ UNCHANGED othervars

\* lines 619-623: one j != i: the k loop, then theprod *= (x_i - x_j)
FitSweep ==
    /\ pc = "inner" /\ j < ptslen
    /\ theterm' = sweep(field, theterm, xvals[j + 1], ptslen - 1)
    /\ theprod' = mul(field, theprod, sub(field, xvals[i + 1], xvals[j + 1]))
    /\ j' = nextJ(i, j + 1)
    /\ calls' = Called((ptslen - 1) + 1, (ptslen - 1) + 1)
    /\ UNCHANGED <<field, pc, exc, thepoints, secret, xvals, yvals, thepoly, i, xvalue, theval>>
    /\ UNCHANGED opvars /\ UNCHANGED uncounted

\* line 624: theprod = yvals[i].div(theprod), which may raise
FitScale ==
    /\ pc = "inner" /\ j >= ptslen
    /\ lookups' = lookups \cup invLookups(field, theprod)
    /\ IF div_raises(field, yvals[i + 1], theprod)
       THEN /\ exc' = "ZeroDivisionError"
            /\ pc' = "raised"
            /\ UNCHANGED <<theprod, calls>>
       ELSE /\ theprod' = div(field, yvals[i + 1], theprod)
            /\ pc' = "accum"
            /\ calls' = Called(1, 0)
            /\ UNCHANGED exc
    /\ UNCHANGED <<field, thepoints, secret, xvals, yvals, thepoly, theterm, i, j, xvalue, theval>>
    /\ UNCHANGED <<a, b, op, ret>> /\ UNCHANGED uncounted

\* lines 625-626: thepoly += theterm * theprod
FitAccumulate ==
    /\ pc = "accum"
    /\ thepoly' = accumulate(field, thepoly, theterm, theprod)
    /\ i' = i + 1
    /\ pc' = "outer"
    /\ calls' = Called(ptslen, ptslen)
    /\ UNCHANGED <<field, exc, thepoints, secret, xvals, yvals, theterm, theprod, j, xvalue, theval>>
    /\ UNCHANGED opvars /\ UNCHANGED uncounted

\* line 627: return thepoly
FitReturn ==
    /\ pc = "outer" /\ i >= ptslen
    /\ pc' = "fitted"
    /\ UNCHANGED <<field, exc>> /\ UNCHANGED fitvars /\ UNCHANGED opvars
    /\ UNCHANGED othervars

\* eval(thepoly, xvalue) at a point of the caller's choice
Eval ==
    /\ pc = "fitted"
    /\ \E xv \in FitXs(field) :
         /\ xvalue' = xv
         /\ theval' = eval(field, thepoly, xv)
    /\ pc' = "evaluated"
    /\ calls' = [mul |-> evalPasses(Len(thepoly) - 2), add |-> evalPasses(Len(thepoly) - 2)]
    /\ UNCHANGED <<field, exc, thepoints, secret, xvals, yvals, thepoly, theterm, theprod, i, j>>
    /\ UNCHANGED opvars /\ UNCHANGED uncounted

(***************************************************************************)
(* Specifications                                                          *)
(***************************************************************************)
NextFit ==
    \/ FitBegin \/ FitTerm \/ FitSweep \/ FitScale \/ FitAccumulate
    \/ FitReturn \/ Eval

NextField == OpAdd \/ OpNeg \/ OpSub \/ OpMul \/ OpInv \/ OpDiv

NextGF16 == OpInv

\* fit on arbitrary points, then eval
Spec == InitFit /\ [][NextFit]_vars

\* fit on shares of a known polynomial, then eval
SpecSplit == InitSplit /\ [][NextFit]_vars

\* one field operation on two elements of one of the three fields
SpecField == InitField /\ [][NextField]_vars

\* inversion of every element of GF16
SpecGF16 == InitGF16 /\ [][NextGF16]_vars

(***************************************************************************)
(* Chained multiplication: (a.mul(b)).mul(c)                               *)
(***************************************************************************)
\* sampled elements of GF16 with both coefficients in play
GF16Sample == {<<At(ByteSeq, k), At(HighSeq, k)>> : k \in 0..MaxByteIdx}

\* the second and third operands of a chained operation
ChainElems(f) ==
    CASE f.kind = "GF8"  -> SampleBytes
      [] f.kind = "GF16" -> GF16Sample
      [] f.kind = "GFp"  -> 0..(f.prime - 1)

\* a caller about to multiply three elements of one field
InitChain ==
    /\ field \in OpFields
    /\ pc = "ready" /\ exc = "none"
    /\ a \in Elems(field) /\ b \in ChainElems(field) /\ c \in ChainElems(field)
    /\ thevalue = 0
    /\ op = "" /\ ret = <<>> /\ lookups = {}
    /\ NoFit /\ NoMore

\* (a.mul(b)).mul(c)
OpMulMul == pc = "ready" /\ Returns("mulmul", mul(field, mul(field, a, b), c), {})

NextChain == OpMulMul

\* two chained multiplications on three elements of one of the three fields
SpecChain == InitChain /\ [][NextChain]_vars

(***************************************************************************)
(* GFpelt(field, value), then one operation on the new element             *)
(***************************************************************************)
\* the integers and the elements of prime fields handed to GFpelt
GFpeltInputs ==
    {PyInt(n) : n \in (0 - MaxInt)..MaxInt}
        \cup {PyGFpelt(q, n) : q \in Primes(MaxPrime), n \in 0..(MaxPrime - 1)}

\* a caller about to build an element of GF(p) and operate on it
InitGFpelt ==
    /\ field \in {GFpfield(p) : p \in Primes(MaxPrime)}
    /\ pc = "new" /\ exc = "none"
    /\ thevalue \in {x \in GFpeltInputs : x.type = "GFpelt" => x.v < x.prime}
    /\ a = 0 /\ b \in Elems(field) /\ c = 0
    /\ op = "" /\ ret = <<>> /\ lookups = {}
    /\ NoFit /\ NoMore

\* a = field(thevalue), that is GFpelt(field, thevalue)
GFpeltInit ==
    /\ pc = "new"
    /\ a' = GFpelt_init(field.prime, thevalue)
    /\ pc' = "ready"
    /\ UNCHANGED <<field, exc, b, c, thevalue, op, ret, lookups>> /\ UNCHANGED fitvars
    /\ UNCHANGED morevars

NextGFpelt == GFpeltInit \/ NextField

SpecGFpelt == InitGFpelt /\ [][NextGFpelt]_vars

(***************************************************************************)
(* GF8elt(value) and GF16elt(value)                                        *)
(***************************************************************************)
\* Python values: text, a list, an element of GF8, an element of GF16
PyStr(s) == [type |-> "str", prime |-> 0, v |-> s]

PyList(items) == [type |-> "list", prime |-> 0, v |-> items]

PyGF8elt(n) == [type |-> "GF8elt", prime |-> 0, v |-> n]

PyGF16elt(cs) == [type |-> "GF16elt", prime |-> 0, v |-> cs]

\* int(s, 16) accepts s: at least one character, hex digits only
IsHexText(s) ==
    /\ Len(s) > 0
    /\ \A k \in 1..Len(s) :
           \E d \in 1..16 : HexDigits[d] = s[k] \/ UpperHexDigits[d] = s[k]

\* functools.reduce(lambda a, x: 2*a + x, reversed(value), 0)
RECURSIVE BitsValue(_)
BitsValue(items) ==
    IF Len(items) = 0 THEN 0
    ELSE items[1].v + 2 * BitsValue(Tail(items))

\* GF8elt.__init__: whether it raises ValueError on val
GF8elt_init_raises(val) ==
    CASE val.type = "GF8elt" -> FALSE
      [] val.type = "int"    -> FALSE
      [] val.type = "str"    -> ~IsHexText(val.v)
      [] val.type = "list"   -> FALSE
      [] OTHER               -> TRUE

\* GF8elt.__init__: the value stored in the element built from val
GF8elt_init(val) ==
    CASE val.type = "GF8elt" -> val.v
      [] val.type = "int"    -> val.v
      [] val.type = "str"    -> IntOfHex(val.v)
      [] val.type = "list"   -> BitsValue(val.v)

\* value[:min(2, len(value))]
FirstTwo(items) == SubSeq(items, 1, IF Len(items) < 2 THEN Len(items) ELSE 2)

\* mutant: every entry of a list is converted, value for value[:min(2,len(value))]
GF16elt_init_raises_all(val) ==
    CASE val.type = "GF16elt" -> FALSE
      [] val.type \in {"int", "str"} -> GF8elt_init_raises(val)
      [] val.type = "list" ->
           \E k \in 1..Len(val.v) : GF8elt_init_raises(val.v[k])
      [] val.type = "GF8elt" -> FALSE
      [] OTHER -> TRUE

\* GF16elt.__init__: whether it raises ValueError on val
GF16elt_init_raises(val) ==
    CASE val.type = "GF16elt" -> FALSE
      [] val.type \in {"int", "str"} -> GF8elt_init_raises(val)
      [] val.type = "list" ->
           \E k \in 1..Len(FirstTwo(val.v)) : GF8elt_init_raises(val.v[k])
      [] val.type = "GF8elt" -> FALSE
      [] OTHER -> TRUE

\* GF16elt.__init__: the coefficients of the element built from val; a list
\* is cut to its first two entries and filled up with zero coefficients
GF16elt_init(val) ==
    CASE val.type = "GF16elt" -> val.v
      [] val.type \in {"int", "str"} -> <<GF8elt_init(val), GF8elt_init(PyInt(0))>>
      [] val.type = "list" ->
           [k \in 1..2 |-> IF k <= Len(val.v) THEN GF8elt_init(val.v[k])
                           ELSE GF8elt_init(PyInt(0))]
      [] val.type = "GF8elt" -> <<val.v, GF8elt_init(PyInt(0))>>

\* integers that are not bytes, besides 0..MaxInt
WideInts == {255, 256, 4660}

HexAlphabet == {"0", "1", "a", "f", "F", "z"}

\* text of up to MaxStrLen characters
Texts == UNION {[1..n -> HexAlphabet] : n \in 0..MaxStrLen}

\* bit lists of up to MaxBits entries
BitLists == UNION {[1..n -> {PyInt(0), PyInt(1)}] : n \in 0..MaxBits}

\* what the entries of a coefficient list are drawn from
CoeffItems ==
    <<PyInt(1), PyInt(256), PyStr(<<"a", "b">>), PyStr(<<"z">>), PyGF8elt(7)>>

\* the ways to pick up to MaxCoeffs entries
CoeffPicks == UNION {[1..n -> 1..Len(CoeffItems)] : n \in 0..MaxCoeffs}

\* the coefficient list of the picked entries
CoeffList(pick) == [k \in 1..Len(pick) |-> CoeffItems[pick[k]]]

\* a caller about to build an element of GF8 or of GF16
InitElt ==
    /\ field \in {GF8field, GF16field}
    /\ pc = "new" /\ exc = "none"
    /\ \/ \E n \in (0..MaxInt) \cup WideInts : thevalue = PyInt(n)
       \/ \E s \in Texts : thevalue = PyStr(s)
       \/ \E l \in BitLists : field.kind = "GF8" /\ thevalue = PyList(l)
       \/ \E pick \in CoeffPicks :
              field.kind = "GF16" /\ thevalue = PyList(CoeffList(pick))
       \/ \E n \in SampleBytes : thevalue = PyGF8elt(n)
       \/ \E cs \in GF16Sample : thevalue = PyGF16elt(cs)
       \/ thevalue = PyGFpelt(5, 3)
    /\ a = 0 /\ b = 0 /\ c = 0
    /\ op = "" /\ ret = <<>> /\ lookups = {}
    /\ NoFit /\ NoMore

Built(error, result) ==
    /\ op' = "init" /\ exc' = error /\ ret' = result
    /\ pc' = "built"
    /\ UNCHANGED <<field, a, b, c, thevalue, lookups>> /\ UNCHANGED fitvars
    /\ UNCHANGED morevars

\* GF8elt(thevalue)
GF8eltInit ==
    /\ pc = "new" /\ field.kind = "GF8"
    /\ IF GF8elt_init_raises(thevalue)
       THEN Built("ValueError", <<>>)
       ELSE Built("none", <<GF8elt_init(thevalue)>>)

\* GF16elt(thevalue)
GF16eltInit ==
    /\ pc = "new" /\ field.kind = "GF16"
    /\ IF GF16elt_init_raises(thevalue)
       THEN Built("ValueError", <<>>)
       ELSE Built("none", <<GF16elt_init(thevalue)>>)

NextElt == GF8eltInit \/ GF16eltInit

SpecElt == InitElt /\ [][NextElt]_vars

(***************************************************************************)
(* A binary operation whose argument is an element of any of the fields:   *)
(* the receiver a is an element of field, the argument the Python value    *)
(* thevalue.                                                               *)
(***************************************************************************)
\* how a call ends: with a result, or with an exception
Ok(result) == [exc |-> "none", ret |-> <<result>>]

Err(error) == [exc |-> error, ret |-> <<>>]

\* val.neg(), the method of val's own class
neg_py(val) ==
    CASE val.type = "GFpelt" -> PyGFpelt(val.prime, GFpelt_neg(val.prime, val.v))
      [] val.type = "GF8elt" -> val

\* val.inv(), the method of val's own class
inv_py(val) ==
    CASE val.type = "GFpelt" ->
           IF GFpelt_inv_raises(val.v) THEN Err("ZeroDivisionError")
           ELSE Ok(PyGFpelt(val.prime, GFpelt_inv(val.prime, val.v)))
      [] val.type = "GF8elt" ->
           IF GF8elt_inv_raises(val.v) THEN Err("ZeroDivisionError")
           ELSE Ok(PyGF8elt(GF8elt_inv(val.v)))

\* mutant: any argument with a value is added, the isinstance test left out
GFpelt_add_anyvalue(p, x, summand) == Ok(GFpelt_add(p, x, summand.v))

\* GFpelt.add: an integer is coerced, a GFpelt of any field is added by its
\* value, anything else is refused
GFpelt_add_py(p, x, summand) ==
    CASE summand.type = "int"    -> Ok(GFpelt_add(p, x, GFpelt_init(p, summand)))
      [] summand.type = "GFpelt" -> Ok(GFpelt_add(p, x, summand.v))
      [] OTHER                   -> Err("NotImplementedError")

\* GFpelt.sub: self.add(summand.neg())
GFpelt_sub_py(p, x, summand) == GFpelt_add_py(p, x, neg_py(summand))

\* GFpelt.mul
GFpelt_mul_py(p, x, multip) ==
    CASE multip.type = "int"    -> Ok(GFpelt_mul_int(p, x, multip.v))
      [] multip.type = "GFpelt" -> Ok(GFpelt_mul(p, x, multip.v))
      [] OTHER                  -> Err("NotImplementedError")

\* GFpelt.div: self.mul(divisor.inv())
GFpelt_div_py(p, x, divisor) ==
    IF divisor.type \notin {"int", "GFpelt"} THEN Err("NotImplementedError")
    ELSE LET d    == IF divisor.type = "int"
                     THEN PyGFpelt(p, GFpelt_normalize(p, divisor.v))
                     ELSE divisor
             dinv == inv_py(d)
         IN  IF dinv.exc # "none" THEN dinv
             ELSE GFpelt_mul_py(p, x, dinv.ret[1])

\* GF8elt.add: GF8elt(self.value ^ GF8elt(summand.value).value)
GF8elt_add_py(x, summand) == Ok(GF8elt_add(x, GF8elt_init(PyInt(summand.v))))

\* GF8elt.sub: self.add(subtrahend)
GF8elt_sub_py(x, subtrahend) == GF8elt_add_py(x, subtrahend)

\* GF8elt.mul: multand.value is multiplied, whatever multand is
GF8elt_mul_py(x, multand) == Ok(GF8elt_mul(x, multand.v))

\* GF8elt.div: self.mul(divisor.inv())
GF8elt_div_py(x, divisor) ==
    LET dinv == inv_py(divisor)
    IN  IF dinv.exc # "none" THEN dinv
        ELSE GF8elt_mul_py(x, dinv.ret[1])

\* the elements handed over as arguments: bytes of GF8, residues of GF(q)
ElementArgs ==
    {PyGF8elt(n) : n \in SampleBytes}
        \cup {x \in {PyGFpelt(q, n) : q \in Primes(MaxPrime), n \in 0..(MaxPrime - 1)} :
                 x.v < x.prime}

\* a caller about to combine an element of GF8 or GF(p) with an element
InitMixed ==
    /\ field \in {GF8field} \cup {GFpfield(p) : p \in Primes(MaxPrime)}
    /\ pc = "ready" /\ exc = "none"
    /\ a \in Elems(field) /\ b = 0 /\ c = 0
    /\ thevalue \in ElementArgs
    /\ op = "" /\ ret = <<>> /\ lookups = {}
    /\ NoFit /\ NoMore

Ends(name, outcome) ==
    /\ op' = name /\ exc' = outcome.exc /\ ret' = outcome.ret
    /\ pc' = "done"
    /\ UNCHANGED <<field, a, b, c, thevalue, lookups>> /\ UNCHANGED fitvars
    /\ UNCHANGED morevars

\* a.add(thevalue)
MixedAdd ==
    /\ pc = "ready"
    /\ Ends("add", IF field.kind = "GFp" THEN GFpelt_add_py(field.prime, a, thevalue)
                   ELSE GF8elt_add_py(a, thevalue))

\* a.sub(thevalue)
MixedSub ==
    /\ pc = "ready"
    /\ Ends("sub", IF field.kind = "GFp" THEN GFpelt_sub_py(field.prime, a, thevalue)
                   ELSE GF8elt_sub_py(a, thevalue))

\* a.mul(thevalue)
MixedMul ==
    /\ pc = "ready"
    /\ Ends("mul", IF field.kind = "GFp" THEN GFpelt_mul_py(field.prime, a, thevalue)
                   ELSE GF8elt_mul_py(a, thevalue))

\* a.div(thevalue)
MixedDiv ==
    /\ pc = "ready"
    /\ Ends("div", IF field.kind = "GFp" THEN GFpelt_div_py(field.prime, a, thevalue)
                   ELSE GF8elt_div_py(a, thevalue))

NextMixed == MixedAdd \/ MixedSub \/ MixedMul \/ MixedDiv

SpecMixed == InitMixed /\ [][NextMixed]_vars

(***************************************************************************)
(* PolyFieldUnivElt of shamirshare.py (v0.2): add, mul, div by a constant  *)
(* and "+" with a list, one call each.  A polynomial is its self.coeffs,   *)
(* a list of elements of the coefficient ring, lowest degree first.        *)
(***************************************************************************)
\* PolyFieldUnivElt.__trimlist__: drop the trailing zeros of thelist
RECURSIVE trimlist(_, _)
trimlist(f, thelist) ==
    IF Len(thelist) > 0 /\ thelist[Len(thelist)] = FromInt(f, 0)
    THEN trimlist(f, SubSeq(thelist, 1, Len(thelist) - 1))
    ELSE thelist

\* PolyFieldUnivElt.__addlists__: the sums entry by entry, 0 past the end
addlists(f, list1, list2) ==
    [k \in 1..(IF Len(list1) > Len(list2) THEN Len(list1) ELSE Len(list2)) |->
        add(f, IF k <= Len(list1) THEN list1[k] ELSE FromInt(f, 0),
               IF k <= Len(list2) THEN list2[k] ELSE FromInt(f, 0))]

\* PolyFieldUnivElt.__init__ on a list: the trimmed list, entries coerced
PolyFieldUnivElt_init(f, coeffs) ==
    LET trimmed == trimlist(f, coeffs)
    IN  [k \in 1..Len(trimmed) |-> Coerce(f, trimmed[k])]

\* PolyFieldUnivElt.add: the coeffs of the new polynomial
PolyFieldUnivElt_add(f, coeffs, summand) ==
    PolyFieldUnivElt_init(f, trimlist(f, addlists(f, coeffs, summand)))

\* sum(self.coeffs[d-i]*multand.coeffs[i] for i in range(from, upto)) of
\* PolyFieldUnivElt.mul, d and i counted from 0
RECURSIVE mulSum(_, _, _, _, _, _)
mulSum(f, coeffs, multand, d, from, upto) ==
    IF from >= upto THEN FromInt(f, 0)
    ELSE add(f, mul(f, coeffs[d - from + 1], multand[from + 1]),
                mulSum(f, coeffs, multand, d, from + 1, upto))

\* PolyFieldUnivElt.mul: the coeffs of the new polynomial
PolyFieldUnivElt_mul(f, coeffs, multand) ==
    LET polydeg == Len(coeffs) + Len(multand) - 2
        thelist == [k \in 1..(polydeg + 1) |->
                       LET d == k - 1
                           lo == IF d - Len(coeffs) + 1 > 0 THEN d - Len(coeffs) + 1 ELSE 0
                           hi == IF d + 1 < Len(multand) THEN d + 1 ELSE Len(multand)
                       IN  mulSum(f, coeffs, multand, d, lo, hi)]
    IN  PolyFieldUnivElt_init(f, thelist)

\* PolyFieldUnivElt.div: a zero divisor raises ZeroDivisionError
PolyFieldUnivElt_div_raises(f, divisor) == divisor = FromInt(f, 0)

\* PolyFieldUnivElt.div: self.coeffs[i] /= divisor for every i
PolyFieldUnivElt_div(f, coeffs, divisor) ==
    [k \in 1..Len(coeffs) |-> div(f, coeffs[k], divisor)]

\* the longest list of coefficients
MaxPolyLen == 2

\* the last index into the sample bytes a coefficient is drawn from
MaxPolyCoeff == 3

\* the coefficient rings of the polynomials
PolyFields == {GF8field} \cup {GFpfield(p) : p \in Primes(MaxFitPrime)}

\* the coefficients and the divisors
PolyCoeffs(f) ==
    CASE f.kind = "GF8" -> {At(ByteSeq, k) : k \in 0..MaxPolyCoeff}
      [] f.kind = "GFp" -> {x \in 0..MaxPolyCoeff : x < f.prime}

\* the lists a caller hands over
PolyLists(f) == UNION {[1..n -> PolyCoeffs(f)] : n \in 0..MaxPolyLen}

\* the coeffs a PolyFieldUnivElt can hold after construction: a trimmed
\* list, or the one entry of a constant
Polys(f) == {l \in PolyLists(f) : l = trimlist(f, l) \/ Len(l) = 1}

\* a caller about to apply one operation to a polynomial, or to two
\* elements of its coefficient ring
InitPoly ==
    /\ field \in PolyFields
    /\ pc = "ready" /\ exc = "none"
    /\ a \in PolyCoeffs(field) /\ b \in PolyCoeffs(field)
    /\ c = 0 /\ thevalue = 0
    /\ selfcoeffs \in Polys(field) /\ argcoeffs \in PolyLists(field)
    /\ var = "" /\ fmtspec = "" /\ callers = <<>> /\ calls = NoCalls /\ frame = <<>>
    /\ op = "" /\ ret = <<>> /\ lookups = {}
    /\ NoFit

\* the call ends: its result or its exception, and the lists it leaves behind
PolyEnds(name, error, result, coeffs, arg) ==
    /\ op' = name /\ exc' = error /\ ret' = result
    /\ selfcoeffs' = coeffs /\ argcoeffs' = arg
    /\ pc' = "done"
    /\ UNCHANGED <<field, a, b, c, thevalue, var, fmtspec, callers, calls, frame, lookups>>
    /\ UNCHANGED fitvars

\* self.add(summand), summand a polynomial
PolyAdd ==
    /\ pc = "ready" /\ argcoeffs \in Polys(field)
    /\ PolyEnds("polyadd", "none",
                <<PolyFieldUnivElt_add(field, selfcoeffs, argcoeffs)>>,
                selfcoeffs, argcoeffs)

\* self.mul(multand), multand a polynomial
PolyMul ==
    /\ pc = "ready" /\ argcoeffs \in Polys(field)
    /\ PolyEnds("polymul", "none",
                <<PolyFieldUnivElt_mul(field, selfcoeffs, argcoeffs)>>,
                selfcoeffs, argcoeffs)

\* self.div(b), also self / b and self // b: the quotients are stored
\* into self.coeffs and self is returned
PolyDiv ==
    /\ pc = "ready"
    /\ IF PolyFieldUnivElt_div_raises(field, b)
       THEN PolyEnds("polydiv", "ZeroDivisionError", <<>>, selfcoeffs, argcoeffs)
       ELSE LET quotients == PolyFieldUnivElt_div(field, selfcoeffs, b)
            IN  PolyEnds("polydiv", "none", <<quotients>>, quotients, argcoeffs)

\* self + summand, summand a list: __add__ builds a polynomial from the
\* list, and building it trims the caller's list in place
PolyPlusList ==
    /\ pc = "ready"
    /\ LET summand == PolyFieldUnivElt_init(field, argcoeffs)
       IN  PolyEnds("polypluslist", "none",
                    <<PolyFieldUnivElt_add(field, selfcoeffs, summand)>>,
                    selfcoeffs, trimlist(field, argcoeffs))

NextPoly == PolyAdd \/ PolyMul \/ PolyDiv \/ PolyPlusList \/ NextField

\* one operation on polynomials or on elements of their coefficient ring
SpecPoly == InitPoly /\ [][NextPoly]_vars

(***************************************************************************)
(* fit(thepoints, thefield) as one call                                    *)
(***************************************************************************)
\* the j loop of fit for one i: <<theterm, theprod>> after the last j
RECURSIVE fitInner(_, _, _, _, _, _)
fitInner(f, xs, ii, jj, term, prod) ==
    IF jj >= Len(xs) THEN <<term, prod>>
    ELSE fitInner(f, xs, ii, nextJ(ii, jj + 1),
                  sweep(f, term, xs[jj + 1], Len(xs) - 1),
                  mul(f, prod, sub(f, xs[ii + 1], xs[jj + 1])))

\* mutant: the i loop stops one short, range(ptslen - 1)
RECURSIVE fitOuter_short(_, _, _, _, _)
fitOuter_short(f, xs, ys, ii, poly) ==
    IF ii >= Len(xs) - 1 THEN [exc |-> "none", thepoly |-> poly]
    ELSE LET inner == fitInner(f, xs, ii, nextJ(ii, 0), initTerm(f, Len(xs)),
                               FromInt(f, 1))
         IN  IF div_raises(f, ys[ii + 1], inner[2])
             THEN [exc |-> "ZeroDivisionError", thepoly |-> poly]
             ELSE fitOuter_short(f, xs, ys, ii + 1,
                                 accumulate(f, poly, inner[1], div(f, ys[ii + 1], inner[2])))

\* the i loop of fit: [exc, thepoly], the exception of the div that raised
\* or the finished polynomial
RECURSIVE fitOuter(_, _, _, _, _)
fitOuter(f, xs, ys, ii, poly) ==
    IF ii >= Len(xs) THEN [exc |-> "none", thepoly |-> poly]
    ELSE LET inner == fitInner(f, xs, ii, nextJ(ii, 0), initTerm(f, Len(xs)),
                               FromInt(f, 1))
         IN  IF div_raises(f, ys[ii + 1], inner[2])
             THEN [exc |-> "ZeroDivisionError", thepoly |-> poly]
             ELSE fitOuter(f, xs, ys, ii + 1,
                           accumulate(f, poly, inner[1], div(f, ys[ii + 1], inner[2])))

\* fit(thepoints, thefield)
fit(f, points) ==
    fitOuter(f, [k \in 1..Len(points) |-> Coerce(f, points[k][1])],
                [k \in 1..Len(points) |-> Coerce(f, points[k][2])],
                0, [k \in 1..Len(points) |-> FromInt(f, 0)])

(***************************************************************************)
(* The field descriptors: GFp(prime) holds prime; GF8() and GF16() are     *)
(* singletons, and GF16.__init__ runs on the one instance at every call    *)
(* of GF16(...), GF16elt.__init__ making such a call with no arguments.    *)
(***************************************************************************)
\* GF16.__init__(self, var='z', fmtspec='x'): the defaults
GF16_defaults == [var |-> "z", fmtspec |-> "x"]

\* the variable names a caller gives GF16
GF16Vars == {"z", "y"}

\* the formats of GF16elt.__format__ a caller gives GF16
GF16Fmts == {"x", "b", "p"}

\* whether x.name(y) builds a GF16elt, which add, sub, mul, inv and div do
\* for their result unless inv raises first; neg returns self
BuildsGF16elt(f, name, x, y) ==
    /\ f.kind = "GF16"
    /\ \/ name \in {"add", "sub", "mul"}
       \/ name = "inv" /\ ~inv_raises(f, x)
       \/ name = "div" /\ ~div_raises(f, x, y)

\* a caller holding a descriptor it constructed, GF16(var, fmtspec) with
\* its own var and fmtspec, and two elements of the field
InitDesc ==
    /\ field \in OpFields
    /\ pc = "ready" /\ exc = "none"
    /\ a \in ChainElems(field) /\ b \in ChainElems(field)
    /\ c = 0 /\ thevalue \in {PyInt(0), PyInt(1)}
    /\ var \in (IF field.kind = "GF16" THEN GF16Vars ELSE {""})
    /\ fmtspec \in (IF field.kind = "GF16" THEN GF16Fmts ELSE {""})
    /\ selfcoeffs = <<>> /\ argcoeffs = <<>> /\ callers = <<>> /\ calls = NoCalls
    /\ frame = <<>>
    /\ op = "" /\ ret = <<>> /\ lookups = {}
    /\ NoFit

\* the call ends; when it built a GF16elt, GF16() has run __init__ on the
\* descriptor with the defaults
DescEnds(name, error, result, built) ==
    /\ op' = name /\ exc' = error /\ ret' = result
    /\ IF built
       THEN var' = GF16_defaults.var /\ fmtspec' = GF16_defaults.fmtspec
       ELSE UNCHANGED <<var, fmtspec>>
    /\ pc' = "done"
    /\ UNCHANGED <<field, a, b, c, thevalue, selfcoeffs, argcoeffs, callers, calls, frame,
                   lookups>>
    /\ UNCHANGED <<thepoints, secret, xvals, yvals, theterm, theprod, i, j>>

\* field(thevalue): GF8elt, GF16elt or GFpelt built from an integer
DescNew ==
    /\ pc = "ready"
    /\ DescEnds("new", "none", <<FromInt(field, thevalue.v)>>, field.kind = "GF16")
    /\ UNCHANGED <<thepoly, xvalue, theval>>

\* a.add(b), a.sub(b), a.mul(b)
DescArith ==
    /\ pc = "ready"
    /\ \E name \in {"add", "sub", "mul"} :
         DescEnds(name, "none",
                  <<CASE name = "add" -> add(field, a, b)
                      [] name = "sub" -> sub(field, a, b)
                      [] name = "mul" -> mul(field, a, b)>>,
                  BuildsGF16elt(field, name, a, b))
    /\ UNCHANGED <<thepoly, xvalue, theval>>

\* a.neg()
DescNeg ==
    /\ pc = "ready"
    /\ DescEnds("neg", "none", <<neg(field, a)>>, BuildsGF16elt(field, "neg", a, b))
    /\ UNCHANGED <<thepoly, xvalue, theval>>

\* a.inv()
DescInv ==
    /\ pc = "ready"
    /\ IF inv_raises(field, a)
       THEN DescEnds("inv", "ZeroDivisionError", <<>>, BuildsGF16elt(field, "inv", a, b))
       ELSE DescEnds("inv", "none", <<inv(field, a)>>, BuildsGF16elt(field, "inv", a, b))
    /\ UNCHANGED <<thepoly, xvalue, theval>>

\* a.div(b)
DescDiv ==
    /\ pc = "ready"
    /\ IF div_raises(field, a, b)
       THEN DescEnds("div", "ZeroDivisionError", <<>>, BuildsGF16elt(field, "div", a, b))
       ELSE DescEnds("div", "none", <<div(field, a, b)>>, BuildsGF16elt(field, "div", a, b))
    /\ UNCHANGED <<thepoly, xvalue, theval>>

\* fit([(a, b)], field): thefield(0), thefield(x), ... build elements
DescFit ==
    /\ pc = "ready"
    /\ LET fitted == fit(field, <<<<a, b>>>>)
       IN  /\ thepoly' = fitted.thepoly
           /\ DescEnds("fit", fitted.exc, <<>>, field.kind = "GF16")
    /\ UNCHANGED <<xvalue, theval>>

\* eval([a, b], a): theval.mul(xvalue).add(poly[0]) builds elements
DescEval ==
    /\ pc = "ready"
    /\ xvalue' = a
    /\ theval' = eval(field, <<a, b>>, a)
    /\ DescEnds("eval", "none", <<>>, field.kind = "GF16")
    /\ UNCHANGED thepoly

\* the constructor of the field called again: GFp(prime) makes another
\* object, GF8() returns the singleton, GF16(v, fs) returns the singleton
\* after __init__ has stored v and fs in it
DescField ==
    /\ pc = "ready"
    /\ \E v \in GF16Vars, fs \in GF16Fmts :
         /\ IF field.kind = "GF16"
            THEN var' = v /\ fmtspec' = fs
            ELSE UNCHANGED <<var, fmtspec>>
    /\ op' = "field" /\ pc' = "done"
    /\ UNCHANGED <<field, exc, ret, a, b, c, thevalue, selfcoeffs, argcoeffs, callers, calls,
                   frame, lookups>>
    /\ UNCHANGED fitvars

NextDesc ==
    \/ DescNew \/ DescArith \/ DescNeg \/ DescInv \/ DescDiv
    \/ DescFit \/ DescEval \/ DescField

\* one step of a caller that holds a field descriptor
SpecDesc == InitDesc /\ [][NextDesc]_vars

(***************************************************************************)
(* Concurrent callers of fit and eval on one shared field descriptor, one  *)
(* step of one caller at a time.  thepoints and every local of fit and     *)
(* eval belong to the call; the descriptor is shared, and for GF16 a step  *)
(* that builds an element stores the defaults in it.                       *)
(***************************************************************************)
\* most points a concurrent caller hands to fit
MaxConcPts == 2

\* the last index of the share indices offered to the concurrent callers
MaxConcX == 1

Callers == {1, 2}

ConcFields == {GF8field, GF16field} \cup {GFpfield(p) : p \in Primes(MaxFitPrime) \ {2, 3}}

\* the share indices offered to the concurrent callers
ConcXs(f) ==
    CASE f.kind = "GF8"  -> {At(ByteSeq, k + 2) : k \in 0..MaxConcX}
      [] f.kind = "GF16" -> {<<At(ByteSeq, k + 2), At(HighSeq, k + 2)>> : k \in 0..MaxConcX}
      [] f.kind = "GFp"  -> {k + 2 : k \in 0..MaxConcX}

\* the lists of points caller t may hand to fit: its own y values
ConcPoints(f, t) ==
    UNION {{[k \in 1..n |-> <<xs[k], YVal(f, 3 * t + k - 1)>>] : xs \in [1..n -> ConcXs(f)]} :
             n \in 1..MaxConcPts}

\* the locals of a caller about to call fit(points, thefield), and alone,
\* what fit(points, thefield) gives with no other caller around
Locals(f, points) ==
    [pc |-> "start", exc |-> "none", thepoints |-> points, alone |-> fit(f, points),
     xvals |-> <<>>, yvals |-> <<>>, thepoly |-> <<>>, theterm |-> <<>>,
     theprod |-> 0, i |-> 0, j |-> 0, xvalue |-> 0, theval |-> 0]

InitConc ==
    /\ field \in ConcFields
    /\ pc = "running" /\ exc = "none"
    /\ \E p1 \in ConcPoints(field, 1), p2 \in ConcPoints(field, 2) :
         callers = <<Locals(field, p1), Locals(field, p2)>>
    /\ var = (IF field.kind = "GF16" THEN "y" ELSE "")
    /\ fmtspec = (IF field.kind = "GF16" THEN "p" ELSE "")
    /\ c = 0 /\ thevalue = 0 /\ selfcoeffs = <<>> /\ argcoeffs = <<>>
    /\ calls = NoCalls /\ frame = <<>>
    /\ NoOp /\ NoFit

\* mutant: theterm is the first caller's list whenever that list has the
\* length of the caller's own
localsOf_shared(t) ==
    IF Len(callers[1].theterm) = Len(callers[t].theterm)
    THEN [callers[t] EXCEPT !.theterm = callers[1].theterm]
    ELSE callers[t]

\* the locals of the call of caller t
localsOf(t) == callers[t]

\* caller t takes a step that leaves its locals as new; a step that built
\* an element of GF16 ran GF16() and so GF16.__init__ with the defaults
ConcStep(t, new, built) ==
    /\ callers' = [callers EXCEPT ![t] = new]
    /\ IF field.kind = "GF16" /\ built
       THEN var' = GF16_defaults.var /\ fmtspec' = GF16_defaults.fmtspec
       ELSE UNCHANGED <<var, fmtspec>>
    /\ UNCHANGED <<field, pc, exc, c, thevalue, selfcoeffs, argcoeffs, calls, frame>>
    /\ UNCHANGED opvars /\ UNCHANGED fitvars

\* lines 610-615: the zero polynomial, the coerced coordinates
ConcBegin(t) ==
    LET me == localsOf(t)
        n  == Len(me.thepoints)
    IN  /\ me.pc = "start"
        /\ ConcStep(t, [me EXCEPT
                          !.thepoly = [k \in 1..n |-> FromInt(field, 0)],
                          !.xvals = [k \in 1..n |-> Coerce(field, me.thepoints[k][1])],
                          !.yvals = [k \in 1..n |-> Coerce(field, me.thepoints[k][2])],
                          !.i = 0,
                          !.pc = "outer"], TRUE)

\* lines 616-618: the next i, theterm = 1, theprod = 1
ConcTerm(t) ==
    LET me == localsOf(t)
        n  == Len(me.thepoints)
    IN  /\ me.pc = "outer" /\ me.i < n
        /\ ConcStep(t, [me EXCEPT
                          !.theterm = initTerm(field, n),
                          !.theprod = FromInt(field, 1),
                          !.j = nextJ(me.i, 0),
                          !.pc = "inner"], TRUE)

\* lines 619-623: one j != i: the k loop, then theprod *= (x_i - x_j)
ConcSweep(t) ==
    LET me == localsOf(t)
        n  == Len(me.thepoints)
    IN  /\ me.pc = "inner" /\ me.j < n
        /\ ConcStep(t, [me EXCEPT
                          !.theterm = sweep(field, me.theterm, me.xvals[me.j + 1], n - 1),
                          !.theprod = mul(field, me.theprod,
                                          sub(field, me.xvals[me.i + 1], me.xvals[me.j + 1])),
                          !.j = nextJ(me.i, me.j + 1)], TRUE)

\* line 624: theprod = yvals[i].div(theprod), which may raise
ConcScale(t) ==
    LET me == localsOf(t)
        n  == Len(me.thepoints)
    IN  /\ me.pc = "inner" /\ me.j >= n
        /\ IF div_raises(field, me.yvals[me.i + 1], me.theprod)
           THEN ConcStep(t, [me EXCEPT !.exc = "ZeroDivisionError", !.pc = "raised"],
                         FALSE)
           ELSE ConcStep(t, [me EXCEPT
                               !.theprod = div(field, me.yvals[me.i + 1], me.theprod),
                               !.pc = "accum"], TRUE)

\* lines 625-626: thepoly += theterm * theprod
ConcAccumulate(t) ==
    LET me == localsOf(t)
    IN  /\ me.pc = "accum"
        /\ ConcStep(t, [me EXCEPT
                          !.thepoly = accumulate(field, me.thepoly, me.theterm, me.theprod),
                          !.i = me.i + 1,
                          !.pc = "outer"], TRUE)

\* line 627: return thepoly
ConcReturn(t) ==
    LET me == localsOf(t)
    IN  /\ me.pc = "outer" /\ me.i >= Len(me.thepoints)
        /\ ConcStep(t, [me EXCEPT !.pc = "fitted"], FALSE)

\* eval(thepoly, xvalue) at a point of the caller's choice; the loop builds
\* elements when thepoly has more than one coefficient
ConcEval(t) ==
    LET me == localsOf(t)
    IN  /\ me.pc = "fitted"
        /\ \E xv \in ConcXs(field) :
             ConcStep(t, [me EXCEPT
                            !.xvalue = xv,
                            !.theval = eval(field, me.thepoly, xv),
                            !.pc = "evaluated"], Len(me.thepoly) > 1)

NextConc ==
    \E t \in Callers :
        \/ ConcBegin(t) \/ ConcTerm(t) \/ ConcSweep(t) \/ ConcScale(t)
        \/ ConcAccumulate(t) \/ ConcReturn(t) \/ ConcEval(t)

\* two callers of fit and eval, their steps interleaved in any order
SpecConc == InitConc /\ [][NextConc]_vars

(***************************************************************************)
(* GFpelt.inv pass by pass: GFpelt.__xgcd(self.value, self.field.prime),   *)
(* one action per pass of its while (1) loop, for any modulus from 2 up,   *)
(* prime or not                                                            *)
(***************************************************************************)
\* the largest modulus tried
MaxModulus == 34

\* the locals of __xgcd before the loop, a and b not negative
xgcdStart(a0, b0) == [a |-> a0, b |-> b0, a1 |-> 1, b1 |-> 0, a2 |-> 0, b2 |-> 1]

\* mutant: a pass of the loop leaves every local as it was
xgcdPass_idle(s) == [returned |-> FALSE, frame |-> s, value |-> <<>>]

\* one pass of the while (1) loop of __xgcd: the tuple returned, or the
\* locals the next pass starts from
xgcdPass(s) ==
    LET quot1 == -(s.a \div s.b)
        na    == s.a % s.b
        na1   == s.a1 + quot1 * s.a2
        nb1   == s.b1 + quot1 * s.b2
    IN  IF na = 0
        THEN [returned |-> TRUE, frame |-> s, value |-> <<s.b, s.a2, s.b2>>]
        ELSE LET quot2 == -(s.b \div na)
                 nb    == s.b % na
                 na2   == s.a2 + quot2 * na1
                 nb2   == s.b2 + quot2 * nb1
             IN  IF nb = 0
                 THEN [returned |-> TRUE, frame |-> s, value |-> <<na, na1, nb1>>]
                 ELSE [returned |-> FALSE, value |-> <<>>,
                       frame |-> [a |-> na, b |-> nb, a1 |-> na1, b1 |-> nb1,
                                  a2 |-> na2, b2 |-> nb2]]

\* a.inv() has passed its zero test and entered __xgcd(a, prime)
InitXgcd ==
    /\ field \in {GFpfield(p) : p \in 2..MaxModulus}
    /\ pc = "xgcd" /\ exc = "none"
    /\ a \in 1..(field.prime - 1) /\ b = 0 /\ c = 0 /\ thevalue = 0
    /\ frame = xgcdStart(a, field.prime)
    /\ selfcoeffs = <<>> /\ argcoeffs = <<>> /\ var = "" /\ fmtspec = ""
    /\ callers = <<>> /\ calls = NoCalls
    /\ op = "inv" /\ ret = <<>> /\ lookups = {}
    /\ NoFit

\* one pass of the loop that does not return
XgcdPass ==
    /\ pc = "xgcd" /\ ~xgcdPass(frame).returned
    /\ frame' = xgcdPass(frame).frame
    /\ UNCHANGED <<field, pc, exc, a, b, c, thevalue, selfcoeffs, argcoeffs, var, fmtspec,
                   callers, calls, op, ret, lookups>>
    /\ UNCHANGED fitvars

\* the pass that returns, and inv building its element from the tuple
XgcdReturn ==
    /\ pc = "xgcd" /\ xgcdPass(frame).returned
    /\ ret' = <<GFpelt_normalize(field.prime, xgcdPass(frame).value[2])>>
    /\ pc' = "done"
    /\ UNCHANGED <<field, exc, a, b, c, thevalue, selfcoeffs, argcoeffs, var, fmtspec,
                   callers, calls, frame, op, lookups>>
    /\ UNCHANGED fitvars

NextXgcd == XgcdPass \/ XgcdReturn

\* the passes of one call of inv
SpecXgcd == InitXgcd /\ [][NextXgcd]_vars

\* the same with the interpreter going on running the call
SpecXgcdLive == SpecXgcd /\ WF_vars(NextXgcd)

(***************************************************************************)
(* fit called on a list of points and on a reordering of the same list,    *)
(* each call taken whole                                                   *)
(***************************************************************************)
\* most points in the reordered lists
MaxPermPts == 3

\* the last index of the x values of the reordered lists
MaxPermX == 2

\* the x values of the reordered lists
PermXs(f) ==
    CASE f.kind = "GF8"  -> {At(ByteSeq, k) : k \in 0..MaxPermX}
      [] f.kind = "GF16" -> {<<At(ByteSeq, k), At(HighSeq, k)>> : k \in 0..MaxPermX}
      [] f.kind = "GFp"  -> 0..MaxPermX

\* the lists of n points with pairwise distinct x in the field f, the y
\* values taken from two places of the sample
DistinctPoints(f, n) ==
    UNION {{[k \in 1..n |-> <<xs[k], YVal(f, seed + k + 1)>>] :
              xs \in {s \in [1..n -> PermXs(f)] :
                        \A k1, k2 \in 1..n :
                            Coerce(f, s[k1]) = Coerce(f, s[k2]) => k1 = k2}} :
             seed \in {0, 2}}

\* the orders the points can be handed over in
Reorderings(n) == {r \in [1..n -> 1..n] : \A k1, k2 \in 1..n : r[k1] = r[k2] => k1 = k2}

\* the first caller holds a list of points, the second the same points in
\* another order
InitPerm ==
    /\ field \in FitFields
    /\ pc = "running" /\ exc = "none"
    /\ \E n \in 1..MaxPermPts : \E points \in DistinctPoints(field, n) :
         \E r \in Reorderings(n) :
           callers = <<Locals(field, points),
                       Locals(field, [k \in 1..n |-> points[r[k]]])>>
    /\ c = 0 /\ thevalue = 0 /\ selfcoeffs = <<>> /\ argcoeffs = <<>>
    /\ var = "" /\ fmtspec = "" /\ calls = NoCalls /\ frame = <<>>
    /\ NoOp /\ NoFit

\* caller t calls fit(thepoints, thefield), which returns or raises
PermFit(t) ==
    /\ callers[t].pc = "start"
    /\ LET returned == callers[t].alone
       IN  callers' = [callers EXCEPT ![t] =
                         [@ EXCEPT !.thepoly = returned.thepoly,
                                   !.exc = returned.exc,
                                   !.pc = IF returned.exc = "none" THEN "fitted"
                                          ELSE "raised"]]
    /\ UNCHANGED <<field, pc, exc, c, thevalue, selfcoeffs, argcoeffs, var, fmtspec,
                   calls, frame>>
    /\ UNCHANGED opvars /\ UNCHANGED fitvars

NextPerm == \E t \in Callers : PermFit(t)

\* two calls of fit on the same points in two orders
SpecPerm == InitPerm /\ [][NextPerm]_vars

(***************************************************************************)
(* PolyFieldUniv.fit and PolyFieldUnivElt.eval of shamirshare.py (v0.2),   *)
(* one pass of the j loop at a time, followed by fit of shamirshare2.py on *)
(* the same points or by an evaluation of the polynomial returned          *)
(***************************************************************************)
\* mutant: the factor is (1*x + xi)
PolyFieldUniv_factor_plus(f, xi) ==
    PolyFieldUnivElt_init(f, <<xi, FromInt(f, 1)>>)

\* PolyFieldUnivElt(self,[-xvals[i],1]) of PolyFieldUniv.fit
PolyFieldUniv_factor(f, xi) ==
    PolyFieldUnivElt_init(f, <<neg(f, xi), FromInt(f, 1)>>)

\* the i loop of PolyFieldUniv.fit, i # j, counted from 0: <<theterm.coeffs,
\* theprod>> after theterm *= (x - xi) and theprod *= (xj - xi)
RECURSIVE PolyFieldUniv_fitInner(_, _, _, _, _, _)
PolyFieldUniv_fitInner(f, xs, jj, ii, term, prod) ==
    IF ii >= Len(xs) THEN <<term, prod>>
    ELSE IF ii = jj THEN PolyFieldUniv_fitInner(f, xs, jj, ii + 1, term, prod)
    ELSE PolyFieldUniv_fitInner(f, xs, jj, ii + 1,
             PolyFieldUnivElt_mul(f, term, PolyFieldUniv_factor(f, xs[ii + 1])),
             mul(f, prod, sub(f, xs[jj + 1], xs[ii + 1])))

\* PolyFieldUnivElt.eval begins with self.coeffs[len(self.coeffs)-1]
PolyFieldUnivElt_eval_raises(coeffs) == Len(coeffs) = 0

\* PolyFieldUnivElt.eval by Horner's rule
PolyFieldUnivElt_eval(f, coeffs, xv) ==
    evalLoop(f, coeffs, xv, coeffs[Len(coeffs)], Len(coeffs) - 2)

\* the lists of n points with pairwise distinct x whose y are all zero
ZeroPoints(f, n) ==
    {[k \in 1..n |-> <<points[k][1], FromInt(f, 0)>>] : points \in DistinctPoints(f, n)}

InitPolyFit ==
    /\ field \in PolyFields
    /\ pc = "start" /\ exc = "none"
    /\ \E n \in 0..MaxPermPts :
         thepoints \in DistinctPoints(field, n) \cup ZeroPoints(field, n)
    /\ secret = <<>> /\ xvals = <<>> /\ yvals = <<>> /\ thepoly = <<>>
    /\ theterm = <<>> /\ theprod = 0 /\ i = 0 /\ j = 0 /\ xvalue = 0 /\ theval = 0
    /\ NoOp /\ NoOther

\* thepoly = PolyFieldUnivElt(self,[]) and the coordinates coerced
PolyFitBegin ==
    /\ pc = "start"
    /\ selfcoeffs' = PolyFieldUnivElt_init(field, <<>>)
    /\ xvals' = [k \in 1..Len(thepoints) |-> Coerce(field, thepoints[k][1])]
    /\ yvals' = [k \in 1..Len(thepoints) |-> Coerce(field, thepoints[k][2])]
    /\ j' = 0
    /\ pc' = "pass"
    /\ UNCHANGED <<field, exc, c, thevalue, argcoeffs, var, fmtspec, callers, calls, frame,
                   thepoints, secret, thepoly, theterm, theprod, i, xvalue, theval>>
    /\ UNCHANGED opvars

\* one pass of the j loop: theterm and theprod are built, then
\* thepoly += (yvals[j]*theterm/theprod), where the division raises on zero
PolyFitPass ==
    /\ pc = "pass" /\ j < Len(xvals)
    /\ LET inner == PolyFieldUniv_fitInner(field, xvals, j, 0,
                        PolyFieldUnivElt_init(field, <<FromInt(field, 1)>>),
                        FromInt(field, 1))
           scaled == PolyFieldUnivElt_mul(field, inner[1], <<yvals[j + 1]>>)
       IN  /\ theterm' = inner[1] /\ theprod' = inner[2]
           /\ IF PolyFieldUnivElt_div_raises(field, inner[2])
              THEN /\ exc' = "ZeroDivisionError" /\ pc' = "raised"
                   /\ UNCHANGED <<selfcoeffs, j>>
              ELSE /\ selfcoeffs' = PolyFieldUnivElt_add(field, selfcoeffs,
                                        PolyFieldUnivElt_div(field, scaled, inner[2]))
                   /\ j' = j + 1
                   /\ UNCHANGED <<exc, pc>>
    /\ UNCHANGED <<field, c, thevalue, argcoeffs, var, fmtspec, callers, calls, frame,
                   thepoints, secret, xvals, yvals, thepoly, i, xvalue, theval>>
    /\ UNCHANGED opvars

\* return thepoly
PolyFitReturn ==
    /\ pc = "pass" /\ j = Len(xvals)
    /\ pc' = "returned"
    /\ UNCHANGED <<field, exc>> /\ UNCHANGED othervars
    /\ UNCHANGED opvars /\ UNCHANGED fitvars

\* shamirshare2.fit(thepoints, thefield) on the points PolyFieldUniv.fit was
\* given
FitAgain ==
    /\ pc = "returned"
    /\ LET again == fit(field, thepoints)
       IN  /\ thepoly' = again.thepoly
           /\ exc' = again.exc
    /\ op' = "fit"
    /\ pc' = "compared"
    /\ UNCHANGED <<field, a, b, ret, lookups>> /\ UNCHANGED othervars
    /\ UNCHANGED <<thepoints, secret, xvals, yvals, theterm, theprod, i, j, xvalue, theval>>

\* thepoly(value), which is thepoly.eval(value)
PolyEval ==
    /\ pc = "returned"
    /\ \E value \in PermXs(field) :
         /\ xvalue' = value
         /\ IF PolyFieldUnivElt_eval_raises(selfcoeffs)
            THEN exc' = "IndexError" /\ UNCHANGED theval
            ELSE theval' = PolyFieldUnivElt_eval(field, selfcoeffs, value) /\ UNCHANGED exc
    /\ op' = "eval"
    /\ pc' = "evaluated"
    /\ UNCHANGED <<field, a, b, ret, lookups>> /\ UNCHANGED othervars
    /\ UNCHANGED <<thepoints, secret, xvals, yvals, thepoly, theterm, theprod, i, j>>

NextPolyFit == PolyFitBegin \/ PolyFitPass \/ PolyFitReturn \/ FitAgain \/ PolyEval

\* the fit of v0.2, compared with the fit of v0.32 or evaluated
SpecPolyFit == InitPolyFit /\ [][NextPolyFit]_vars

(***************************************************************************)
(* The binary fields alone: one operation on two elements, or fit and eval *)
(***************************************************************************)
InitBinary ==
    /\ InitField \/ InitFit
    /\ field.kind \in {"GF8", "GF16"}

NextBinary == NextField \/ NextFit

\* a caller of GF8 or GF16 that applies one operation or fits and evaluates
SpecBinary == InitBinary /\ [][NextBinary]_vars

(***************************************************************************)
(* PolyFieldUnivElt.__eq__ and __ne__ of shamirshare.py (v0.2), one        *)
(* comparison of two polynomials over the same ring                        *)
(***************************************************************************)
\* PolyFieldUnivElt.__eq__, other a polynomial: the two lists compared
PolyFieldUnivElt_eq(coeffs, othercoeffs) == coeffs = othercoeffs

\* PolyFieldUnivElt.__ne__, other a polynomial: it returns
\* self.coeffs == otherpoly.coeffs
PolyFieldUnivElt_ne(coeffs, othercoeffs) == coeffs = othercoeffs

\* self == other
PolyEq ==
    /\ pc = "ready" /\ argcoeffs \in Polys(field)
    /\ PolyEnds("eq", "none", <<PolyFieldUnivElt_eq(selfcoeffs, argcoeffs)>>,
                selfcoeffs, argcoeffs)

\* self != other
PolyNe ==
    /\ pc = "ready" /\ argcoeffs \in Polys(field)
    /\ PolyEnds("ne", "none", <<PolyFieldUnivElt_ne(selfcoeffs, argcoeffs)>>,
                selfcoeffs, argcoeffs)

NextCompare == PolyEq \/ PolyNe

\* one comparison of two polynomials
SpecCompare == InitPoly /\ [][NextCompare]_vars

(***************************************************************************)
(* Properties                                                              *)
(***************************************************************************)
zero == FromInt(field, 0)

one == FromInt(field, 1)

ZeroDivisionError == "ZeroDivisionError"

\* the coordinates handed to fit, as elements of the field
givenX(k) == Coerce(field, thepoints[k][1])

givenY(k) == Coerce(field, thepoints[k][2])

\* the x coordinates are pairwise distinct as elements of the field
PointsDistinct ==
    \A m, n \in 1..ptslen : m # n => givenX(m) # givenX(n)

\* x_k is shared with another point
Duplicated(k) == \E m \in 1..ptslen : m # k /\ givenX(m) = givenX(k)

\* C1: interpolation exactness.  On points with pairwise-distinct x, fit
\* does not raise, and evaluating the fitted polynomial at any x_k gives y_k.
C1_InterpolationExact ==
    PointsDistinct =>
        /\ pc # "raised"
        /\ pc = "evaluated" =>
             \A k \in 1..ptslen : xvalue = thepoints[k][1] => theval = givenY(k)

\* three distinct points over GF16, evaluated at the third, a nonzero value
C1_Witness ==
    /\ pc = "evaluated" /\ field.kind = "GF16" /\ ptslen = 3 /\ PointsDistinct
    /\ xvalue = thepoints[3][1] /\ theval = givenY(3) /\ theval # zero

\* C2: secret recovery invariance.  The shares are (x, eval(secret, x)); fit
\* on any k of them at pairwise-distinct x returns the secret polynomial
\* coefficient for coefficient, and eval at zero returns its constant term.
C2_SecretRecovery ==
    PointsDistinct =>
        /\ pc # "raised"
        /\ pc \in {"fitted", "evaluated"} => thepoly = secret
        /\ (pc = "evaluated" /\ xvalue = zero) => theval = secret[1]

\* a secret polynomial of degree 2 over GF8 recovered from three shares, none
\* of them the share at zero, and evaluated at zero
C2_Witness ==
    /\ pc = "evaluated" /\ field.kind = "GF8" /\ ptslen = 3 /\ PointsDistinct
    /\ secret[3] # 0 /\ secret[1] # 0
    /\ \A k \in 1..3 : thepoints[k][1] # 0
    /\ xvalue = 0 /\ theval = secret[1] /\ thepoly = secret

\* C3: duplicate-index rejection.  With two equal x among n >= 2 points, fit
\* returns no polynomial: the division of line 624 never returns for an
\* index whose x is duplicated, it raises ZeroDivisionError there, and the
\* loop never gets past the first such index.
C3_DuplicateRejected ==
    (ptslen >= 2 /\ ~PointsDistinct) =>
        /\ pc \notin {"fitted", "evaluated"}
        /\ pc = "accum" => ~Duplicated(i + 1)
        /\ pc = "raised" => (exc = ZeroDivisionError /\ Duplicated(i + 1))
        /\ pc \in {"outer", "inner", "accum", "raised"} =>
             (i < ptslen /\ \A k \in 1..i : ~Duplicated(k))

\* fit over GF(p) raised at the second of three points, whose x equals that of
\* the third only after coercion (the integers differ)
C3_Witness ==
    /\ pc = "raised" /\ exc = ZeroDivisionError
    /\ field.kind = "GFp" /\ ptslen = 3 /\ i = 1
    /\ thepoints[2][1] # thepoints[3][1] /\ givenX(2) = givenX(3)
    /\ givenX(1) # givenX(2)

\* C4: inverting zero, and dividing by zero, raises ZeroDivisionError in all
\* three fields and returns nothing; the entry 00 of __GF8inv is never read.
C4_ZeroInverseFails ==
    /\ (pc = "done" /\ op = "inv" /\ a = zero) =>
         (exc = ZeroDivisionError /\ ret = <<>>)
    /\ (pc = "done" /\ op = "div" /\ b = zero) =>
         (exc = ZeroDivisionError /\ ret = <<>>)
    /\ <<"0", "0">> \notin lookups

\* a nonzero GF16 element divided by the zero of GF16
C4_Witness ==
    /\ pc = "done" /\ op = "div" /\ field.kind = "GF16"
    /\ b = zero /\ a # zero /\ exc = ZeroDivisionError /\ ret = <<>>

\* C5: every nonzero entry of the hard-coded table is the inverse: for a in
\* 1..255, a.inv() returns and a.mul(a.inv()) is 1.
C5_GF8InverseTable ==
    (pc = "done" /\ field.kind = "GF8" /\ op = "inv" /\ a # 0) =>
        /\ exc = "none" /\ Len(ret) = 1
        /\ GF8elt_mul(a, ret[1]) = 1

\* the inverse of 53 found to be ca, through the table
C5_Witness ==
    /\ pc = "done" /\ field.kind = "GF8" /\ op = "inv"
    /\ a = 83 /\ ret = <<202>> /\ lookups = {<<"5", "3">>}

\* C6: the closed-form inverse of GF16: for every (c0, c1) other than (0, 0)
\* d is nonzero, inv() returns, and a.mul(a.inv()) is (1, 0).
C6_GF16Inverse ==
    (pc = "done" /\ op = "inv" /\ field.kind = "GF16" /\ a # <<0, 0>>) =>
        /\ GF16elt_inv_d(a) # 0
        /\ exc = "none" /\ Len(ret) = 1
        /\ GF16elt_mul(a, ret[1]) = <<1, 0>>

\* the inverse of an element with both coefficients nonzero
C6_Witness ==
    /\ pc = "done" /\ op = "inv" /\ field.kind = "GF16"
    /\ a = <<171, 205>> /\ exc = "none" /\ ret # <<>>
    /\ ret[1][1] # 0 /\ ret[1][2] # 0

\* C7: the inverse of GF(p): for a in 1..p-1, inv() returns a value in
\* [0, p) and a.mul(a.inv()) has value 1.
C7_GFpInverse ==
    (pc = "done" /\ op = "inv" /\ field.kind = "GFp" /\ a # 0) =>
        /\ exc = "none" /\ Len(ret) = 1
        /\ ret[1] \in 0..(field.prime - 1)
        /\ GFpelt_mul(field.prime, a, ret[1]) = 1

\* an inverse in GF(13) that is neither 1 nor the element itself
C7_Witness ==
    /\ pc = "done" /\ op = "inv" /\ field.kind = "GFp" /\ field.prime = 13
    /\ a = 5 /\ ret = <<8>>

\* x^8 + x^4 + x^3 + x + 1
AESPoly == 283

\* bit k of the product of the binary polynomials a and b: the parity of the
\* number of pairs of set bits whose positions add up to k
RefProductBit(x, y, k) ==
    Cardinality({n \in 0..7 : k - n \in 0..7 /\ BitOf(x, n) = 1 /\ BitOf(y, k - n) = 1}) % 2

RECURSIVE RefProduct(_, _, _)
RefProduct(x, y, k) ==
    IF k > 14 THEN 0 ELSE RefProductBit(x, y, k) * Pow2(k) + RefProduct(x, y, k + 1)

\* v mod AESPoly by long division, from the bit `bit` down to bit 8
RECURSIVE RefMod(_, _)
RefMod(v, bit) ==
    IF bit < 8 THEN v
    ELSE RefMod(IF BitOf(v, bit) = 1 THEN Xor(v, Shl(AESPoly, bit - 8)) ELSE v, bit - 1)

\* the product in the AES field
RefGF8Mul(x, y) == RefMod(RefProduct(x, y, 0), 15)

\* the 8 constants of reductable are x^8 .. x^15 modulo AESPoly
ReductableIsReduced == \A k \in 0..7 : reductable[k + 1] = RefMod(Pow2(8 + k), 15)

\* C8: GF8 multiplication is the carry-less product reduced modulo
\* x^8+x^4+x^3+x+1, and the 8 reduction constants are x^8..x^15 reduced
\* modulo that polynomial.
C8_GF8MulReference ==
    (pc = "done" /\ field.kind = "GF8" /\ op = "mul") =>
        /\ ret = <<RefGF8Mul(a, b)>>
        /\ ReductableIsReduced

\* the documented product c.mul(b) == 'bd' for c = 37, b = f5, which needs
\* reduction
C8_Witness ==
    /\ pc = "done" /\ field.kind = "GF8" /\ op = "mul"
    /\ a = 55 /\ b = 245 /\ ret = <<189>> /\ mulLoop(a, b, 0) > 255

\* C9: GF16 multiplication is the product of the two degree-1 polynomials
\* over GF8 reduced with z^2 = z + m, m = 3a:
\* (a0*b0 + a1*b1*m, a0*b1 + a1*b0 + a1*b1).
C9_GF16MulReference ==
    (pc = "done" /\ field.kind = "GF16" /\ op = "mul") =>
        ret = << << Xor(RefGF8Mul(a[1], b[1]),
                        RefGF8Mul(RefGF8Mul(a[2], b[2]), 58)),
                    Xor(Xor(RefGF8Mul(a[1], b[2]), RefGF8Mul(a[2], b[1])),
                        RefGF8Mul(a[2], b[2])) >> >>

\* a product in which z^2 occurs and is reduced
C9_Witness ==
    /\ pc = "done" /\ field.kind = "GF16" /\ op = "mul"
    /\ a[2] # 0 /\ b[2] # 0 /\ a[1] # 0 /\ b[1] # 0
    /\ GF8elt_mul(a[2], b[2]) > 1 /\ ret # <<>> /\ ret[1][1] # 0 /\ ret[1][2] # 0

\* C10: multiplication is commutative in all three fields: a.mul(b) equals
\* b.mul(a).
C10_MulCommutes ==
    (pc = "done" /\ op = "mul") => ret = <<mul(field, b, a)>>

\* a GF8 product of two different bytes that needs reduction
C10_Witness ==
    /\ pc = "done" /\ op = "mul" /\ field.kind = "GF8"
    /\ a = 87 /\ b = 131 /\ ret = <<193>>

\* C11: multiplication is associative in GF8, GF16 and GF(p): the chained
\* product (a.mul(b)).mul(c) equals a.mul(b.mul(c)).
C11_MulAssociative ==
    (pc = "done" /\ op = "mulmul") => ret = <<mul(field, a, mul(field, b, c))>>

\* C11 witness: (57 * ca) * 53 in GF8, where ca * 53 = 01
C11_Witness ==
    /\ pc = "done" /\ op = "mulmul" /\ field.kind = "GF8"
    /\ a = 87 /\ b = 202 /\ c = 83 /\ ret = <<87>>

\* C12: addition in GF8 is self-inverse: a.add(a) is the zero element,
\* a.neg() is a, and a.sub(b) is a.add(b).
C12_GF8SelfInverseAdd ==
    (pc = "done" /\ field.kind = "GF8") =>
        /\ (op = "add" /\ a = b) => ret = <<0>>
        /\ op = "neg" => ret = <<a>>
        /\ op = "sub" => ret = <<GF8elt_add(a, b)>>

\* C12 witness: ca.add(ca) in GF8
C12_Witness ==
    /\ pc = "done" /\ field.kind = "GF8" /\ op = "add"
    /\ a = 202 /\ b = 202 /\ ret = <<0>>

\* the values of GF(p): the integers of [0, p)
Normalized(x) == x \in 0..(field.prime - 1)

\* C13 as stated: every element of GF(p) holds a value in [0, p) right after
\* its construction from an integer of either sign or from an existing
\* element, one of a field with another modulus included, and after every
\* operation.
C13_AlwaysNormalized ==
    /\ pc \in {"ready", "done"} => Normalized(a)
    /\ (pc = "done" /\ ret # <<>>) => Normalized(ret[1])

\* C13 amended: an element built from an integer of either sign holds a
\* value in [0, p); an element built from an existing GFpelt holds that
\* element's value unchanged, in [0, p) when it comes from the same field;
\* the result of every add, neg, sub, mul, inv, div is in [0, p).
C13_NormalizedFromInt ==
    /\ (pc \in {"ready", "done"} /\ thevalue.type = "int") => Normalized(a)
    /\ (pc \in {"ready", "done"} /\ thevalue.type = "GFpelt") =>
           /\ a = thevalue.v
           /\ thevalue.prime = field.prime => Normalized(a)
    /\ (pc = "done" /\ ret # <<>>) => Normalized(ret[1])

\* C13 witness: GF(13) built from -2 holds 11, and its negation is 2
C13_Witness ==
    /\ pc = "done" /\ field.prime = 13 /\ thevalue = PyInt(0 - 2)
    /\ a = 11 /\ op = "neg" /\ ret = <<2>>

IsByte(x) == x \in 0..255

\* C14: every element of GF8, and each of the two coefficients of every
\* element of GF16, holds a value in 0..255 after its construction from a
\* non-negative integer, hex text or a list; an input that is no single byte
\* (256, 0x1234, '1ff') is rejected, never stored.
C14_CanonicalBytes ==
    (pc = "built" /\ ret # <<>>) =>
        IF field.kind = "GF8" THEN IsByte(ret[1])
        ELSE IsByte(ret[1][1]) /\ IsByte(ret[1][2])

\* C15: evaluating at the zero element returns the constant term: eval(poly,
\* zero) is poly[0] for every non-empty coefficient list, in all three fields.
C15_EvalAtZero ==
    (pc = "evaluated" /\ xvalue = zero) => theval = thepoly[1]

\* C15 witness: a polynomial of GF16 with three nonzero coefficients,
\* evaluated at zero
C15_Witness ==
    /\ pc = "evaluated" /\ xvalue = zero /\ field.kind = "GF16"
    /\ Len(thepoly) = 3 /\ \A k \in 1..3 : thepoly[k] # zero
    /\ theval = thepoly[1]

\* the argument is an element of another field than the receiver's
FieldMismatch ==
    \/ field.kind = "GFp" /\ thevalue.type = "GF8elt"
    \/ field.kind = "GF8" /\ thevalue.type = "GFpelt"
    \/ field.kind = "GFp" /\ thevalue.type = "GFpelt" /\ thevalue.prime # field.prime

\* C16 as stated: add, sub, mul and div on two elements of different fields
\* (GF(p) with GF8 in either order, or two moduli) fail with an error and
\* give no result.
C16_MismatchFails ==
    (pc = "done" /\ FieldMismatch) => (exc # "none" /\ ret = <<>>)

\* C16 amended: with a GF(p) receiver and a GF8 argument every one of add,
\* sub, mul, div fails with NotImplementedError and no result; with a GF8
\* receiver and a GF(p) argument, or two moduli, no field check is made: the
\* operation returns a result computed from the argument's value (a sum is
\* a ^ v in GF8, (a + v) mod p in GF(p)) and fails only for div by a zero
\* argument, with ZeroDivisionError.
C16_MismatchOutcome ==
    (pc = "done" /\ FieldMismatch) =>
        IF field.kind = "GFp" /\ thevalue.type = "GF8elt"
        THEN exc = "NotImplementedError" /\ ret = <<>>
        ELSE IF op = "div" /\ thevalue.v = 0
        THEN exc = "ZeroDivisionError" /\ ret = <<>>
        ELSE /\ exc = "none" /\ ret # <<>>
             /\ (op = "add" /\ field.kind = "GF8") => ret[1] = XorBits(a, thevalue.v)
             /\ (op = "add" /\ field.kind = "GFp") =>
                    ret[1] = (a + thevalue.v) % field.prime

\* C16 witness: 7 of GF(13) add 02 of GF8 fails
C16_Witness ==
    /\ pc = "done" /\ op = "add" /\ field = GFpfield(13) /\ a = 7
    /\ thevalue = PyGF8elt(2) /\ exc = "NotImplementedError" /\ ret = <<>>

\* GF16elt was handed a list whose length is not 2
WrongLength ==
    field.kind = "GF16" /\ thevalue.type = "list" /\ Len(thevalue.v) # 2

\* C17 as stated: GF16elt on a coefficient list of a length other than 2
\* (empty, one entry, three or more) is rejected with an error; no element
\* is made by padding or truncating.
C17_WrongLengthRejected ==
    (pc = "built" /\ WrongLength) => (exc # "none" /\ ret = <<>>)

\* C17 amended: GF16elt does not reject a list for its length: a list of
\* fewer than two entries is filled up with zero coefficients, of a list of
\* more than two the first two are used and the others never read; it
\* fails, with ValueError, only when an entry it uses is refused by GF8elt.
C17_WrongLengthCoerced ==
    (pc = "built" /\ WrongLength) =>
        IF \E k \in 1..Len(thevalue.v) : k <= 2 /\ GF8elt_init_raises(thevalue.v[k])
        THEN exc = "ValueError" /\ ret = <<>>
        ELSE /\ exc = "none" /\ ret # <<>> /\ Len(ret[1]) = 2
             /\ \A k \in 1..2 :
                    ret[1][k] = IF k <= Len(thevalue.v)
                                THEN GF8elt_init(thevalue.v[k]) ELSE 0

\* C17 witness: GF16elt(['ab']) is the element [ab, 00]
C17_Witness ==
    /\ pc = "built" /\ field.kind = "GF16"
    /\ thevalue.type = "list" /\ Len(thevalue.v) = 1
    /\ thevalue.v[1].type = "str" /\ thevalue.v[1].v = <<"a", "b">>
    /\ exc = "none" /\ ret = <<<<171, 0>>>>

\* C18: no arithmetic operation changes an operand: across add, sub, neg,
\* mul, inv, div on field elements, and add, mul and division by a constant
\* on polynomials, the elements a and b, the coefficients of the polynomial
\* the method is called on and those of its argument are the same after the
\* call as before it.
C18_OperandsUnchanged ==
    [][/\ a' = a /\ b' = b
       /\ selfcoeffs' = selfcoeffs /\ argcoeffs' = argcoeffs]_vars

\* C19: a field descriptor is never mutated after construction: no step,
\* be it the construction of an element, arithmetic, fit, eval or a further
\* call of the field constructor, changes its prime, var or fmtspec.
C19_DescriptorUnchanged ==
    [][field' = field /\ var' = var /\ fmtspec' = fmtspec]_vars

RECURSIVE FieldPower(_, _, _)
FieldPower(f, x, e) ==
    IF e = 0 THEN FromInt(f, 1) ELSE mul(f, FieldPower(f, x, e - 1), x)

\* the sum over k < n of poly[k] * x^k in the field, lowest degree first
RECURSIVE PowerSum(_, _, _, _)
PowerSum(f, poly, x, n) ==
    IF n = 0 THEN FromInt(f, 0)
    ELSE add(f, PowerSum(f, poly, x, n - 1),
                mul(f, poly[n], FieldPower(f, Coerce(f, x), n - 1)))

\* C22: eval(poly, x) on a non-empty poly of length n is the sum over i in
\* 0..n-1 of poly[i] * x^i in the field, reached with exactly n-1 calls of
\* mul and n-1 calls of add.
C22_HornerIsPowerSum ==
    pc = "evaluated" =>
        /\ theval = PowerSum(field, thepoly, xvalue, Len(thepoly))
        /\ calls = [mul |-> Len(thepoly) - 1, add |-> Len(thepoly) - 1]

\* a polynomial of degree two over GF8 evaluated at a point other than 0
\* and 1, to a value that is not its constant term
C22_Witness ==
    /\ pc = "evaluated" /\ field = GF8field
    /\ Len(thepoly) = 3 /\ thepoly[3] # 0 /\ thepoly[2] # 0
    /\ xvalue = 2 /\ theval # thepoly[1]
    /\ calls.mul = 2 /\ calls.add = 2

\* the indices (from 1) of the x_j swept in so far for the current i: the
\* j below the next one, i left out
Swept == {jj + 1 : jj \in {n \in 0..(j - 1) : n # i /\ n < ptslen}}

\* the product in the field of xvals[t] over the indices t in T
RECURSIVE ProductOver(_)
ProductOver(T) ==
    IF T = {} THEN one
    ELSE LET t == CHOOSE t \in T : TRUE
         IN  mul(field, xvals[t], ProductOver(T \ {t}))

\* the sum in the field of ProductOver(T) over the sets T in Ts
RECURSIVE SumOfProducts(_)
SumOfProducts(Ts) ==
    IF Ts = {} THEN zero
    ELSE LET T == CHOOSE T \in Ts : TRUE
         IN  add(field, ProductOver(T), SumOfProducts(Ts \ {T}))

\* x negated r times
RECURSIVE Negated(_, _)
Negated(x, r) == IF r = 0 THEN x ELSE Negated(neg(field, x), r - 1)

\* the coefficient of x^k in the product of the (x - x_t), t in Swept: the
\* signed elementary symmetric polynomial of degree m - k, zero above m
PartialProductCoeff(k) ==
    LET m == Cardinality(Swept)
    IN  IF k > m THEN zero
        ELSE Negated(SumOfProducts({T \in SUBSET Swept : Cardinality(T) = m - k}),
                     m - k)

\* the product of the (x_i - x_t) over the indices t in T
RECURSIVE DifferenceProduct(_)
DifferenceProduct(T) ==
    IF T = {} THEN one
    ELSE LET t == CHOOSE t \in T : TRUE
         IN  mul(field, sub(field, xvals[i + 1], xvals[t]), DifferenceProduct(T \ {t}))

\* C23: in fit, for each i, after m factors have been swept in theterm[k]
\* is the coefficient of x^k in the product of those m factors (x - x_j),
\* zero above m, and theprod is the product of the (x_i - x_j); so when
\* the loop over j ends they are the full product over j != i.
C23_BasisTerm ==
    pc = "inner" =>
        /\ \A k \in 0..(ptslen - 1) : theterm[k + 1] = PartialProductCoeff(k)
        /\ theprod = DifferenceProduct(Swept)

\* the loop over j has ended for the middle one of three points with
\* distinct x over GF8, none of them zero
C23_Witness ==
    /\ pc = "inner" /\ field = GF8field /\ ptslen = 3
    /\ i = 1 /\ j >= ptslen
    /\ xvals[1] # xvals[3] /\ xvals[1] # 0 /\ xvals[3] # 0
    /\ theterm[1] # 0 /\ theterm[2] # 0 /\ theterm[3] = 1

\* x is an element of the field in use: a byte, a pair of bytes, a residue
IsElement(x) ==
    CASE field.kind = "GF8"  -> x \in 0..255
      [] field.kind = "GF16" -> x \in (0..255) \X (0..255)
      [] field.kind = "GFp"  -> x \in 0..(field.prime - 1)

\* C24: fit on n >= 1 points returns a list of exactly n coefficients, each
\* an element of the field, high-order zeros kept; on one point it returns
\* the one-element list [y_0].
C24_FitLength ==
    pc = "fitted" =>
        /\ Len(thepoly) = ptslen
        /\ \A k \in 1..ptslen : IsElement(thepoly[k])
        /\ ptslen = 1 => thepoly = <<givenY(1)>>

\* three points with distinct x on a line over GF8: the coefficient of
\* x^2 is zero and is kept
C24_Witness ==
    /\ pc = "fitted" /\ field = GF8field /\ ptslen = 3
    /\ PointsDistinct
    /\ Len(thepoly) = 3 /\ thepoly[3] = 0 /\ thepoly[2] # 0

\* C25: the while (1) loop of GFpelt.__xgcd ends for every value a in
\* 1..p-1 and every modulus p >= 2, prime or composite: inv returns.
C25_XgcdTerminates == <>(pc = "done")

\* inv has returned after more than two passes for a composite modulus
C25_Witness ==
    /\ pc = "done" /\ field.prime = 34 /\ a = 21
    /\ frame.a1 # 1 /\ frame.a2 # 0
    /\ Len(ret) = 1

\* C26: fit does not depend on the order of its points: on a list with
\* pairwise distinct x and on any reordering of it, fit returns the same
\* coefficient list.
C26_OrderIndependent ==
    (\A t \in Callers : callers[t].pc # "start") =>
        /\ \A t \in Callers : callers[t].pc = "fitted"
        /\ callers[1].thepoly = callers[2].thepoly

\* three points over GF16 fitted in the given order and in the reverse
\* order, the polynomial being of degree two
C26_Witness ==
    /\ field = GF16field
    /\ \A t \in Callers : callers[t].pc = "fitted" /\ Len(callers[t].thepoints) = 3
    /\ \A k \in 1..3 : callers[2].thepoints[k] = callers[1].thepoints[4 - k]
    /\ callers[1].thepoints[1] # callers[1].thepoints[3]
    /\ callers[2].thepoly[3] # <<0, 0>>

\* coefficient k of a list, counted from 1, zero past its end
CoeffAt(f, coeffs, k) == IF k <= Len(coeffs) THEN coeffs[k] ELSE FromInt(f, 0)

\* C27: on points with pairwise distinct x over GF8 or GF(p),
\* PolyFieldUniv.fit of v0.2 and fit of v0.32 both return, and coefficient k
\* is the same in both results for every k, a coefficient the v0.2 result
\* trimmed away counting as zero.
C27_VersionsAgree ==
    pc = "compared" =>
        /\ exc = "none"
        /\ Len(selfcoeffs) <= Len(thepoly)
        /\ \A k \in 1..Len(thepoly) :
              CoeffAt(field, selfcoeffs, k) = thepoly[k]

\* three points whose polynomial is not zero and has no x^2 term: v0.2
\* returns fewer coefficients than v0.32
C27_Witness ==
    /\ pc = "compared" /\ Len(thepoints) = 3
    /\ Len(thepoly) = 3 /\ Len(selfcoeffs) \in {1, 2}
    /\ thepoly[3] = FromInt(field, 0)

\* C28: in v0.2 the evaluation of the polynomial PolyFieldUniv.fit returned
\* for points with pairwise distinct x never fails: at every field point it
\* returns a field element, and the zero element when every y is zero.
C28_EvalReturns ==
    pc = "evaluated" =>
        /\ exc = "none"
        /\ IsElement(theval)
        /\ (\A k \in 1..Len(yvals) : yvals[k] = FromInt(field, 0)) =>
               theval = FromInt(field, 0)

\* C29: on operands holding bytes, GF8 add, sub, neg, mul, inv and div
\* return a value in 0..255 and GF16 add, mul, inv and div return a pair of
\* two values in 0..255; so does every coefficient fit returns and every
\* value eval returns over such inputs.
C29_Closure ==
    /\ (/\ pc = "done" /\ exc = "none"
        /\ \/ field.kind = "GF8" /\ op \in {"add", "sub", "neg", "mul", "inv", "div"}
           \/ field.kind = "GF16" /\ op \in {"add", "mul", "inv", "div"})
       => /\ Len(ret) = 1
          /\ IsElement(ret[1])
    /\ pc \in {"fitted", "evaluated"} =>
          \A k \in 1..Len(thepoly) : IsElement(thepoly[k])
    /\ pc = "evaluated" => IsElement(theval)

\* a division in GF16 of two elements with both bytes set, whose quotient
\* has the top bit of a byte set
C29_Witness ==
    /\ field = GF16field /\ pc = "done" /\ op = "div" /\ exc = "none"
    /\ a[1] # 0 /\ a[2] # 0 /\ b[1] # 0 /\ b[2] # 0
    /\ ret[1] \in (0..255) \X (0..255)
    /\ ret[1][2] > 127

\* C30: for polynomials p and q over the same ring, p != q is true exactly
\* when p == q is false.
C30_NeNegatesEq ==
    (pc = "done" /\ op = "ne") =>
        (ret[1] <=> ~PolyFieldUnivElt_eq(selfcoeffs, argcoeffs))

=============================================================================
